---- MODULE Spec2Model ----
(***************************************************************************)
(* Dodge game (src/src/components/DodgeGame.tsx): the requestAnimationFrame*)
(* game loop, the React state it reads through render-time closures, the   *)
(* player motion model, the spawners, the motion integrator and the        *)
(* collision detector.                                                     *)
(*                                                                         *)
(* Numbers.  JavaScript numbers are modelled in fixed point: lengths,      *)
(* positions, velocities and speeds in 1/Scale pixel, times in whole       *)
(* milliseconds, dt in 1/1000 reference frame.  Products are rounded       *)
(* towards zero.                                                           *)
(*                                                                         *)
(* React.  setX(...) calls made outside the render are queued: `queued` is *)
(* the state the queue will produce, `state` is the state of the last      *)
(* committed render.  Every callback (loopRef.current, checkCollisions,    *)
(* spawnFallingObject, ...) is a closure over the `state` of the render    *)
(* that created it.  Updates made in a click or key handler are flushed    *)
(* synchronously at the end of the handler; updates made in an animation   *)
(* frame callback or after an await are rendered later, in a task of their *)
(* own (action Commit), which the browser may run before or after the next *)
(* animation frame.                                                        *)
(***************************************************************************)
EXTENDS Integers, Sequences, FiniteSets, TLC

\* ------------------------------------------------------------ constants

Scale == 10 ^ 3

CANVAS_WIDTH == 400
CANVAS_HEIGHT == 600
PLAYER_WIDTH == 22
PLAYER_HEIGHT == 32
PLAYER_SPEED == 6
FALLING_OBJECT_WIDTH == 28
FALLING_OBJECT_HEIGHT == 28
MAX_FALLING_OBJECTS == 22
LEVEL_UP_SCORE == 20
IDLE_THRESHOLD == 1000
TARGET_METEOR_COOLDOWN == 3000
IDLE_STEP == 16

\* 5.25 px per reference frame
INITIAL_FALLING_SPEED == (525 * Scale) \div 100
\* 0.0525, in 1/10000
SPAWN_RATE == 525
\* 0.8 px per frame per frame
ACCELERATION == (8 * Scale) \div 10
MAX_SPEED == PLAYER_SPEED * Scale
\* 0.85, in 1/100
FRICTION == 85
\* 0.1 px per frame
VELOCITY_EPSILON == Scale \div 10
\* 0.35, 0.45, 0.45, in 1/100
PLAYER_SCALE_RX == 35
PLAYER_SCALE_RY == 45
METEOR_SCALE == 45

FieldWidth == CANVAS_WIDTH * Scale
FieldHeight == CANVAS_HEIGHT * Scale
PlayerW == PLAYER_WIDTH * Scale
PlayerH == PLAYER_HEIGHT * Scale
ObjW == FALLING_OBJECT_WIDTH * Scale
ObjH == FALLING_OBJECT_HEIGHT * Scale
PlayerMaxX == FieldWidth - PlayerW
PlayerStartX == FieldWidth \div 2 - PlayerW \div 2
PlayerY == FieldHeight - PlayerH - 20 * Scale

\* ------------------------------------------------------------ arithmetic

Abs(n) == IF n < 0 THEN -n ELSE n
Min(a, b) == IF a < b THEN a ELSE b
Max(a, b) == IF a > b THEN a ELSE b
\* a * b / c rounded towards zero, for any sign of a (b, c > 0)
MulDiv(a, b, c) == IF a < 0 THEN -((-a * b) \div c) ELSE (a * b) \div c

RECURSIVE SqrtIter(_, _)
SqrtIter(n, x) ==
  LET y == (x + n \div x) \div 2
  IN IF y >= x THEN x ELSE SqrtIter(n, y)
\* floor(sqrt(n))
Sqrt(n) == IF n <= 0 THEN 0 ELSE SqrtIter(n, n)

\* ------------------------------------------------------------ progression

\* Fault variant of getCurrentLevel: the level rises one point early.
getCurrentLevelEarly(sc) == (sc + 1) \div LEVEL_UP_SCORE + 1

\* Math.floor(score / LEVEL_UP_SCORE) + 1
getCurrentLevel(sc) == sc \div LEVEL_UP_SCORE + 1

\* INITIAL_FALLING_SPEED * (1 + 0.5 * (level - 1))
getSpeedByLevel(lv) == (INITIAL_FALLING_SPEED * (10 + 5 * (lv - 1))) \div 10

\* Fault variant of currentSpawnRate: the rate is not capped.
currentSpawnRateUncapped(lv) == SPAWN_RATE * (100 + (lv - 1) * 15)

\* Math.min(SPAWN_RATE * (1 + (level - 1) * 0.15), SPAWN_RATE * 2), in 1/1000000
currentSpawnRate(lv) ==
  Min(SPAWN_RATE * (100 + (lv - 1) * 15), SPAWN_RATE * 2 * 100)

\* (currentTime - prevTime) / 16.6667, in 1/1000 frame (16.6667 = 50/3)
FrameDt(elapsed) == (elapsed * 3 * 1000) \div 50
DtOne == 1000

\* ------------------------------------------------------------ hitboxes

getPlayerEllipseHitbox(px) ==
  [cx |-> px + PlayerW \div 2,
   cy |-> PlayerY + PlayerH \div 2,
   rx |-> ((PlayerW \div 2) * PLAYER_SCALE_RX) \div 100,
   ry |-> ((PlayerH \div 2) * PLAYER_SCALE_RY) \div 100]

\* Fault variant of getMeteorCircleHitbox: the circle sits on the obstacle's corner.
getMeteorCircleHitboxCorner(o) ==
  [cx |-> o.x,
   cy |-> o.y,
   radius |-> ((Min(ObjW, ObjH) \div 2) * METEOR_SCALE) \div 100]

getMeteorCircleHitbox(o) ==
  [cx |-> o.x + ObjW \div 2,
   cy |-> o.y + ObjH \div 2,
   radius |-> ((Min(ObjW, ObjH) \div 2) * METEOR_SCALE) \div 100]

\* Fault variant of ellipseVsCircle: a circle on the boundary counts as a hit.
ellipseVsCircleInclusive(e, c) ==
  LET normalizedDx == (Abs(c.cx - e.cx) * 100) \div e.rx
      normalizedDy == (Abs(c.cy - e.cy) * 100) \div e.ry
      distanceSquared == normalizedDx * normalizedDx + normalizedDy * normalizedDy
      transformedRadiusX == (c.radius * 1000) \div e.rx
      transformedRadiusY == (c.radius * 1000) \div e.ry
      transformedRadius ==
        (Sqrt(transformedRadiusX * transformedRadiusX
              + transformedRadiusY * transformedRadiusY) * 1000) \div 1414
  IN Sqrt(distanceSquared) <= (1000 + transformedRadius) \div 10

\* Distances normalised by (rx, ry) are kept in 1/100.
ellipseVsCircle(e, c) ==
  LET normalizedDx == (Abs(c.cx - e.cx) * 100) \div e.rx
      normalizedDy == (Abs(c.cy - e.cy) * 100) \div e.ry
      distanceSquared == normalizedDx * normalizedDx + normalizedDy * normalizedDy
      \* the transformed radius is kept in 1/1000; Math.sqrt(2) = 1.414
      transformedRadiusX == (c.radius * 1000) \div e.rx
      transformedRadiusY == (c.radius * 1000) \div e.ry
      transformedRadius ==
        (Sqrt(transformedRadiusX * transformedRadiusX
              + transformedRadiusY * transformedRadiusY) * 1000) \div 1414
  IN Sqrt(distanceSquared) < (1000 + transformedRadius) \div 10

checkCollision(px, o) ==
  ellipseVsCircle(getPlayerEllipseHitbox(px), getMeteorCircleHitbox(o))

\* ------------------------------------------------------------ bounds

\* animation frame callbacks run per behaviour
MaxTicks == 3
\* games started per behaviour
MaxGames == 2
\* input events (key, touch, button) per behaviour
MaxInputs == 1

\* ------------------------------------------------------------ state

VARIABLES
  state,                  \* React state of the last committed render
  queued,                 \* React state once the queued updates are applied
  playerX,                \* playerRef.current.x
  playerVelocity,         \* playerVelocityRef.current
  keys,                   \* keysRef.current
  touch,                  \* touchRef.current
  fallingObjects,         \* fallingObjectsRef.current
  playerIdleTime,         \* playerIdleTimeRef.current
  lastPlayerPosition,     \* lastPlayerPositionRef.current
  lastTargetMeteorTime,   \* lastTargetMeteorTimeRef.current
  prevTime,               \* prevTimeRef.current
  startTime,              \* startTimeRef.current
  gameLoopRef,            \* gameLoopRef.current, 0 for undefined
  rafQueue,               \* animation frame callbacks requested and not yet run
  now,                    \* performance.now(), ms since page load
  requests,               \* POST /api/game/complete calls made so far, in order
  inflight,               \* indices in requests of the calls not yet answered
  scorePost,              \* session id of the modal's pending POST /api/scores, or 0
  usedSessions,           \* game_sessions rows with is_used = true
  rateLimitMap,           \* rateLimitMap of app/api/scores/route.ts, by IP
  dateNow,                \* Date.now() on the server, ms
  postLog,                \* every POST /api/scores received, in order, with its progress
  globalCache,            \* globalCache of lib/cache.ts, by key
  scores,                 \* rows of the table scores, in insertion order
  getLog,                 \* every GET of the leaderboard received, in order, with its progress
  gameNo,                 \* history: number of startGame calls so far
  forcedLog,              \* history: <<game, time>> of every targeted meteor
  spawned,                \* history: number of obstacles created so far
  inputs,                 \* history: number of input events so far
  lastTick                \* history: what the last animation frame callback did,
                          \* with the number of ticks of this game, up to it, since
                          \* the idle tracker was reset (quiet) and since x changed
                          \* by more than 1 px within a tick (still), the number
                          \* of ticks of this game that ran the game (nth) and the
                          \* timestamp of the last of them (at), and the input
                          \* direction its updatePlayer computed (dir)

reactVars == <<state, queued>>
playerVars == <<playerX, playerVelocity, playerIdleTime, lastPlayerPosition>>
inputVars == <<keys, touch, inputs>>
objectVars == <<fallingObjects, lastTargetMeteorTime, forcedLog, spawned>>
clockVars == <<prevTime, startTime>>
rafVars == <<gameLoopRef, rafQueue>>
netVars == <<requests, inflight, scorePost, usedSessions>>
serverVars == <<rateLimitMap, dateNow, postLog, globalCache, scores, getLog>>
vars == <<state, queued, playerX, playerVelocity, keys, touch, fallingObjects,
          playerIdleTime, lastPlayerPosition, lastTargetMeteorTime, prevTime,
          startTime, gameLoopRef, rafQueue, now, requests, inflight, scorePost,
          usedSessions, rateLimitMap, dateNow, postLog, globalCache, scores, getLog,
          gameNo, forcedLog, spawned, inputs, lastTick>>

\* new Map(): no key
NoEntries == [ip \in {} |-> 0]

NoTick ==
  [n |-> 0, game |-> 0, ran |-> FALSE, dt |-> 0, exited |-> 0, hit |-> FALSE,
   forced |-> FALSE, score |-> 0, setLevel |-> -1, tested |-> 0, quiet |-> 0,
   still |-> 0, nth |-> 0, at |-> 0, dir |-> 0, calm |-> 0,
   rnd |-> 0, lvl |-> 0]

InitialState ==
  [gameState |-> "start", score |-> 0, level |-> 1, gameTime |-> 0,
   isSubmittingGameSession |-> FALSE, gameSessionId |-> 0,
   showModal |-> FALSE, showHitboxes |-> FALSE, isSubmitting |-> FALSE]

Init ==
  /\ state = InitialState
  /\ queued = InitialState
  /\ playerX = PlayerStartX
  /\ playerVelocity = 0
  /\ keys = [ArrowLeft |-> FALSE, ArrowRight |-> FALSE]
  /\ touch = [isMovingLeft |-> FALSE, isMovingRight |-> FALSE]
  /\ fallingObjects = <<>>
  /\ playerIdleTime = 0
  /\ lastPlayerPosition = 0
  /\ lastTargetMeteorTime = 0
  /\ prevTime = 0
  /\ startTime = 0
  /\ gameLoopRef = 0
  /\ rafQueue = {}
  /\ now = 0
  /\ requests = <<>>
  /\ inflight = {}
  /\ scorePost = 0
  /\ usedSessions = {}
  /\ rateLimitMap = NoEntries
  /\ dateNow = 0
  /\ postLog = <<>>
  /\ globalCache = NoEntries
  /\ scores = <<>>
  /\ getLog = <<>>
  /\ gameNo = 0
  /\ forcedLog = <<>>
  /\ spawned = 0
  /\ inputs = 0
  /\ lastTick = NoTick

\* ------------------------------------------------------------ player motion

\* Fault variant of inputDirection: the keyboard is read after the touch state.
inputDirectionKeyboardLast(kb, tc) ==
  LET d0 == 0
      d1 == IF tc.isMovingLeft THEN -1 ELSE d0
      d2 == IF tc.isMovingRight THEN 1 ELSE d1
      d3 == IF kb.ArrowLeft THEN -1 ELSE d2
      d4 == IF kb.ArrowRight THEN 1 ELSE d3
  IN d4

\* lines 180-196: keyboard first, then touch; the later assignment wins
inputDirection(kb, tc) ==
  LET d0 == 0
      d1 == IF kb.ArrowLeft THEN -1 ELSE d0
      d2 == IF kb.ArrowRight THEN 1 ELSE d1
      d3 == IF tc.isMovingLeft THEN -1 ELSE d2
      d4 == IF tc.isMovingRight THEN 1 ELSE d3
  IN d4

\* Fault variant of acceleratedVelocity: a small velocity is not set to 0.
acceleratedVelocityNoSnap(v, dir) ==
  IF dir # 0
    THEN Max(-MAX_SPEED, Min(MAX_SPEED, v + dir * ACCELERATION))
    ELSE MulDiv(v, FRICTION, 100)

\* Fault variant of acceleratedVelocity: the speed limit is missing.
acceleratedVelocityUnclamped(v, dir) ==
  IF dir # 0
    THEN v + dir * ACCELERATION
    ELSE LET f == MulDiv(v, FRICTION, 100)
         IN IF Abs(f) < VELOCITY_EPSILON THEN 0 ELSE f

\* lines 198-211: acceleration with a speed limit, or friction
acceleratedVelocity(v, dir) ==
  IF dir # 0
    THEN Max(-MAX_SPEED, Min(MAX_SPEED, v + dir * ACCELERATION))
    ELSE LET f == MulDiv(v, FRICTION, 100)
         IN IF Abs(f) < VELOCITY_EPSILON THEN 0 ELSE f

\* Fault variant of moveWithinBounds: only the right boundary is checked.
moveWithinRightBound(px, v) ==
  LET newX == px + v
  IN IF newX <= FieldWidth - PlayerW
       THEN [x |-> newX, velocity |-> v]
       ELSE [x |-> FieldWidth - PlayerW, velocity |-> 0]

\* Fault variant of moveWithinBounds: the player bounces off the boundary.
moveWithBounce(px, v) ==
  LET newX == px + v
  IN IF newX >= 0 /\ newX <= FieldWidth - PlayerW
       THEN [x |-> newX, velocity |-> v]
       ELSE [x |-> IF newX < 0 THEN 0 ELSE FieldWidth - PlayerW, velocity |-> -v]

\* lines 213-227: the boundary check
moveWithinBounds(px, v) ==
  LET newX == px + v
  IN IF newX >= 0 /\ newX <= FieldWidth - PlayerW
       THEN [x |-> newX, velocity |-> v]
       ELSE [x |-> IF newX < 0 THEN 0 ELSE FieldWidth - PlayerW, velocity |-> 0]

\* Fault variant of trackIdle: the test is inverted, so standing still never
\* accrues idle time.
trackIdleInverted(currentPosition, idleTime, lastPosition) ==
  IF Abs(currentPosition - lastPosition) > 1 * Scale
    THEN [idleTime |-> idleTime + IDLE_STEP, lastPosition |-> lastPosition]
    ELSE [idleTime |-> 0, lastPosition |-> currentPosition]

\* lines 229-237: currentPosition is player.x as read on entry (line 179)
trackIdle(currentPosition, idleTime, lastPosition) ==
  IF Abs(currentPosition - lastPosition) > 1 * Scale
    THEN [idleTime |-> 0, lastPosition |-> currentPosition]
    ELSE [idleTime |-> idleTime + IDLE_STEP, lastPosition |-> lastPosition]

updatePlayer(px, v, kb, tc, idleTime, lastPosition) ==
  LET moved == moveWithinBounds(px, acceleratedVelocity(v, inputDirection(kb, tc)))
      idle == trackIdle(px, idleTime, lastPosition)
  IN [x |-> moved.x, velocity |-> moved.velocity,
      idleTime |-> idle.idleTime, lastPosition |-> idle.lastPosition]

\* ------------------------------------------------------------ obstacles

\* id, x0, speed0, forced and game are history fields: the serial number of the
\* obstacle, its x and speed when created, which spawner made it, in which game.
Obstacle(x, speed, id, forced, game) ==
  [x |-> x, y |-> 0, width |-> ObjW, height |-> ObjH, speed |-> speed,
   id |-> id, x0 |-> x, speed0 |-> speed, forced |-> forced, game |-> game]

\* rnd: the first Math.random(), in 1/10000; rx: Math.random() * (400 - 28)
spawnFallingObject(objs, lv, rnd, rx, id, game) ==
  IF Len(objs) >= MAX_FALLING_OBJECTS
    THEN objs
    ELSE IF rnd * 100 < currentSpawnRate(lv)
           THEN Append(objs, Obstacle(rx, getSpeedByLevel(lv), id, FALSE, game))
           ELSE objs

\* Fault variant of targetMeteorFires: the cooldown is not consulted.
targetMeteorFiresNoCooldown(t, idleTime, last) == ~(idleTime < IDLE_THRESHOLD)

\* jit: (Math.random() - 0.5) * 40
targetMeteorFires(t, idleTime, last) ==
  /\ ~(t - last < TARGET_METEOR_COOLDOWN)
  /\ ~(idleTime < IDLE_THRESHOLD)

\* Fault variant of spawnTargetMeteor: the time of the last targeted meteor is
\* not updated.
spawnTargetMeteorKeepsTime(objs, lv, t, px, idleTime, last, jit, id, game) ==
  IF targetMeteorFires(t, idleTime, last)
    THEN LET playerCenter == px + PlayerW \div 2
             spawnX == Max(0, Min(FieldWidth - ObjW, playerCenter - ObjW \div 2 + jit))
         IN [objs |-> Append(objs, Obstacle(spawnX, getSpeedByLevel(lv), id, TRUE, game)),
             last |-> last, fired |-> TRUE]
    ELSE [objs |-> objs, last |-> last, fired |-> FALSE]

spawnTargetMeteor(objs, lv, t, px, idleTime, last, jit, id, game) ==
  IF targetMeteorFires(t, idleTime, last)
    THEN LET playerCenter == px + PlayerW \div 2
             spawnX == Max(0, Min(FieldWidth - ObjW, playerCenter - ObjW \div 2 + jit))
         IN [objs |-> Append(objs, Obstacle(spawnX, getSpeedByLevel(lv), id, TRUE, game)),
             last |-> t, fired |-> TRUE]
    ELSE [objs |-> objs, last |-> last, fired |-> FALSE]

\* Fault variant of fall: the speed is rescaled by dt on every frame.
fallRescaled(o, dt) ==
  [o EXCEPT !.y = o.y + (o.speed * dt) \div 1000, !.speed = (o.speed * dt) \div 1000]

\* obj.y += obj.speed * dt
fall(o, dt) == [o EXCEPT !.y = o.y + (o.speed * dt) \div 1000]

\* Fault variant of updateFallingObjects: an object that reaches the lower edge
\* exactly is removed too.
updateFallingObjectsInclusive(objs, dt) ==
  LET moved == [i \in 1..Len(objs) |-> fall(objs[i], dt)]
      kept == SelectSeq(moved, LAMBDA o : ~(o.y >= FieldHeight))
  IN [objs |-> kept, exited |-> Len(moved) - Len(kept)]

\* lines 302-315: one filter pass; every exited object is one setScore(prev + 1)
updateFallingObjects(objs, dt) ==
  LET moved == [i \in 1..Len(objs) |-> fall(objs[i], dt)]
      kept == SelectSeq(moved, LAMBDA o : ~(o.y > FieldHeight))
  IN [objs |-> kept, exited |-> Len(moved) - Len(kept)]

\* Fault variant of checkCollisions: an empty collection counts as a hit.
checkCollisionsEvery(px, objs) == \A i \in 1..Len(objs) : checkCollision(px, objs[i])

\* lines 357-371: the first hit ends the scan
checkCollisions(px, objs) == \E i \in 1..Len(objs) : checkCollision(px, objs[i])

\* Fault variant of collisionsTested: the scan goes on after a hit.
collisionsTestedAll(px, objs) == Len(objs)

\* lines 358-370: the for loop from obstacle i on; the value is the number of
\* obstacles that checkCollision was called on, the `return` of line 368 ends it
RECURSIVE scanCollisions(_, _, _)
scanCollisions(px, objs, i) ==
  IF i > Len(objs) THEN Len(objs)
  ELSE IF checkCollision(px, objs[i]) THEN i
  ELSE scanCollisions(px, objs, i + 1)

collisionsTested(px, objs) == scanCollisions(px, objs, 1)

\* ------------------------------------------------------------ animation frames

\* Fault variant of cancelAnimationFrame: the request stays pending.
cancelAnimationFrameIgnored(rq, id) == rq

\* The callback with handle id is removed from the pending ones.
cancelAnimationFrame(rq, id) == {cb \in rq : cb.id # id}

\* Handles are unique among the pending callbacks; the smallest free one is taken.
NewHandle(rq) ==
  CHOOSE i \in 1..(Cardinality(rq) + 1) :
    /\ i \notin {cb.id : cb \in rq}
    /\ \A j \in 1..(i - 1) : j \in {cb.id : cb \in rq}

\* requestAnimationFrame(loopRef.current): the callback is the closure of the
\* render whose state is `closure`
requestAnimationFrame(rq, closure) ==
  LET id == NewHandle(rq)
  IN [rafQueue |-> rq \cup {[id |-> id, closure |-> closure]}, id |-> id]

\* ------------------------------------------------------------ React render and effects

\* lines 684-696, cleanup of the keyboard effect: cancels, keeps the handle
keyboardEffectCleanup(rq, ref) ==
  IF ref # 0 THEN cancelAnimationFrame(rq, ref) ELSE rq

\* lines 710-715, cleanup of the RAF effect
rafEffectCleanup(rq, ref) ==
  IF ref # 0
    THEN [rafQueue |-> cancelAnimationFrame(rq, ref), gameLoopRef |-> 0]
    ELSE [rafQueue |-> rq, gameLoopRef |-> ref]

\* Fault variant of rafEffectSetup: prevTimeRef is not reset.
rafEffectSetupKeepsPrevTime(new, rq, ref, prev) ==
  IF new.gameState = "playing"
    THEN LET rq1 == IF ref # 0 THEN cancelAnimationFrame(rq, ref) ELSE rq
             armed == requestAnimationFrame(rq1, new)
         IN [rafQueue |-> armed.rafQueue, gameLoopRef |-> armed.id, prevTime |-> prev]
    ELSE [rafQueue |-> rq, gameLoopRef |-> ref, prevTime |-> prev]

\* lines 701-708, the RAF effect
rafEffectSetup(new, rq, ref, prev) ==
  IF new.gameState = "playing"
    THEN LET rq1 == IF ref # 0 THEN cancelAnimationFrame(rq, ref) ELSE rq
             armed == requestAnimationFrame(rq1, new)
         IN [rafQueue |-> armed.rafQueue, gameLoopRef |-> armed.id, prevTime |-> 0]
    ELSE [rafQueue |-> rq, gameLoopRef |-> ref, prevTime |-> prev]

\* The effects of one commit: the cleanups of the effects whose dependencies
\* changed ([gameState, showHitboxes] at line 697, [gameState] at line 716),
\* then their bodies.
runEffects(old, new, rq, ref, prev) ==
  LET gs == old.gameState # new.gameState
      kb == gs \/ old.showHitboxes # new.showHitboxes
      rq1 == IF kb THEN keyboardEffectCleanup(rq, ref) ELSE rq
      c == IF gs THEN rafEffectCleanup(rq1, ref)
                 ELSE [rafQueue |-> rq1, gameLoopRef |-> ref]
  IN IF gs THEN rafEffectSetup(new, c.rafQueue, c.gameLoopRef, prev)
           ELSE [rafQueue |-> c.rafQueue, gameLoopRef |-> c.gameLoopRef, prevTime |-> prev]

\* React renders and commits `new` and runs the effects, the pending callbacks
\* being rq.
Render(new, rq) ==
  LET e == runEffects(state, new, rq, gameLoopRef, prevTime)
  IN /\ state' = new
     /\ queued' = new
     /\ rafQueue' = e.rafQueue
     /\ gameLoopRef' = e.gameLoopRef
     /\ prevTime' = e.prevTime

\* The queued updates of an animation frame callback or of a fetch continuation
\* are rendered.
Commit ==
  /\ queued # state
  /\ Render(queued, rafQueue)
  /\ UNCHANGED <<playerVars, inputVars, objectVars, startTime, now, netVars, serverVars,
                 gameNo, lastTick>>

\* ------------------------------------------------------------ start, restart, home

\* Fault variant of startGameState: the score of the last game is kept.
startGameStateKeepScore(q) ==
  [q EXCEPT !.gameState = "playing", !.level = 1, !.gameTime = 0,
            !.gameSessionId = 0, !.isSubmittingGameSession = FALSE]

\* The React updates of startGame, lines 517-523
startGameState(q) ==
  [q EXCEPT !.gameState = "playing", !.score = 0, !.level = 1, !.gameTime = 0,
            !.gameSessionId = 0, !.isSubmittingGameSession = FALSE]

\* startGame, lines 516-542, at time t with the pending callbacks rq; the click
\* or key handler that called it ends and React renders.
startGame(t, rq) ==
  /\ gameNo < MaxGames
  /\ gameNo' = gameNo + 1
  /\ now' = t
  /\ playerX' = FieldWidth \div 2 - PlayerW \div 2
  /\ fallingObjects' = <<>>
  /\ startTime' = t
  /\ playerIdleTime' = 0
  /\ lastPlayerPosition' = FieldWidth \div 2 - PlayerW \div 2
  /\ lastTargetMeteorTime' = 0
  /\ playerVelocity' = 0
  /\ Render(startGameState(queued), rq)
  /\ UNCHANGED <<inputVars, forcedLog, spawned, netVars, serverVars, lastTick>>

\* line 838: the start overlay; the modal (fixed inset-0 z-50) covers the page
startVisible(st) == st.gameState = "start" /\ ~st.showModal
\* line 858: the game over overlay with its buttons
gameOverVisible(st) == st.gameState = "gameOver" /\ ~st.showModal

\* line 848: the start button, `delay` ms after the previous event
ClickStart(delay) ==
  /\ startVisible(state)
  /\ startGame(now + delay, rafQueue)

\* restartGame, lines 545-550, from the button at line 888
RestartGame(delay) ==
  /\ gameOverVisible(state)
  /\ startGame(now + delay,
               IF gameLoopRef # 0 THEN cancelAnimationFrame(rafQueue, gameLoopRef)
                                  ELSE rafQueue)

\* handleGoHome, lines 584-590, from the button at line 903
handleGoHomeState(q) ==
  [q EXCEPT !.gameState = "start", !.score = 0, !.level = 1, !.gameTime = 0]

HandleGoHome ==
  /\ gameOverVisible(state)
  /\ Render(handleGoHomeState(queued), rafQueue)
  /\ UNCHANGED <<playerVars, inputVars, objectVars, startTime, now, netVars, serverVars,
                 gameNo, lastTick>>

\* handleKeyDown, lines 614-621: Enter, seen by the handler of the last render
EnterKey(delay) ==
  \/ /\ state.gameState = "start"
     /\ startGame(now + delay, rafQueue)
  \/ /\ state.gameState = "gameOver"
     /\ Render([queued EXCEPT !.showModal = TRUE], rafQueue)
     /\ UNCHANGED <<playerVars, inputVars, objectVars, startTime, now, netVars, serverVars,
                    gameNo, lastTick>>

\* handleKeyDown, lines 622-626: h toggles the hitbox display
ToggleHitboxes ==
  /\ inputs' = inputs + 1
  /\ Render([queued EXCEPT !.showHitboxes = ~@], rafQueue)
  /\ UNCHANGED <<playerVars, keys, touch, objectVars, startTime, now, netVars, serverVars,
                 gameNo, lastTick>>

\* ------------------------------------------------------------ the tick

\* Fault variant of Tick: checkCollisions runs before updateFallingObjects, on the
\* obstacles as they were before this tick moved them.
TickCollidesFirst(cb, gap, rnd, rx, jit) ==
  /\ cb \in rafQueue
  /\ now' = now + gap
  /\ LET c == cb.closure
         rq == rafQueue \ {cb}
         t == now + gap
     IN IF c.gameState # "playing"
          THEN /\ rafQueue' = rq
               /\ lastTick' = [NoTick EXCEPT !.n = lastTick.n + 1, !.game = gameNo,
                    !.quiet = IF lastTick.game = gameNo THEN lastTick.quiet ELSE 0,
                    !.still = IF lastTick.game = gameNo THEN lastTick.still ELSE 0,
                    !.nth = IF lastTick.game = gameNo THEN lastTick.nth ELSE 0,
                    !.at = IF lastTick.game = gameNo THEN lastTick.at ELSE 0,
                    !.calm = IF lastTick.game = gameNo THEN lastTick.calm ELSE 0]
               /\ UNCHANGED <<reactVars, playerVars, objectVars, clockVars,
                              gameLoopRef, requests, inflight>>
          ELSE LET dt == IF prevTime # 0 THEN FrameDt(t - prevTime) ELSE DtOne
                   elapsedTime == (t - startTime) \div 1000
                   newLevel == getCurrentLevel(c.score)
                   p == updatePlayer(playerX, playerVelocity, keys, touch,
                                     playerIdleTime, lastPlayerPosition)
                   o1 == spawnFallingObject(fallingObjects, c.level, rnd, rx,
                                            spawned + 1, gameNo)
                   n1 == spawned + (Len(o1) - Len(fallingObjects))
                   tm == spawnTargetMeteor(o1, c.level, t, p.x, p.idleTime,
                                           lastTargetMeteorTime, jit, n1 + 1, gameNo)
                   u == updateFallingObjects(tm.objs, dt)
                   hit == checkCollisions(p.x, tm.objs)
                   \* submitGameSession, lines 319-323, of the same render
                   submits == hit /\ ~c.isSubmittingGameSession
                   armed == requestAnimationFrame(rq, state)
               IN /\ prevTime' = t
                  /\ playerX' = p.x
                  /\ playerVelocity' = p.velocity
                  /\ playerIdleTime' = p.idleTime
                  /\ lastPlayerPosition' = p.lastPosition
                  /\ fallingObjects' = u.objs
                  /\ lastTargetMeteorTime' = tm.last
                  /\ spawned' = n1 + (IF tm.fired THEN 1 ELSE 0)
                  /\ forcedLog' = IF tm.fired THEN Append(forcedLog, <<gameNo, t>>)
                                              ELSE forcedLog
                  /\ queued' = [queued EXCEPT
                       !.gameTime = elapsedTime,
                       !.level = IF newLevel # c.level THEN newLevel ELSE @,
                       !.score = @ + u.exited,
                       !.gameState = IF hit THEN "gameOver" ELSE @,
                       !.isSubmittingGameSession = IF submits THEN TRUE ELSE @]
                  /\ requests' = IF submits
                       THEN Append(requests, [game |-> gameNo, score |-> c.score,
                                              level |-> c.level, duration |-> elapsedTime])
                       ELSE requests
                  /\ inflight' = IF submits THEN inflight \cup {Len(requests) + 1}
                                            ELSE inflight
                  /\ rafQueue' = armed.rafQueue
                  /\ gameLoopRef' = armed.id
                  /\ lastTick' = [n |-> lastTick.n + 1, game |-> gameNo, ran |-> TRUE,
                                  dt |-> dt,
                                  exited |-> u.exited, hit |-> hit, forced |-> tm.fired,
                                  score |-> c.score,
                                  setLevel |-> IF newLevel # c.level THEN newLevel ELSE -1,
                                  tested |-> collisionsTested(p.x, u.objs),
                                  quiet |-> IF p.idleTime = 0 THEN 0
                                            ELSE IF lastTick.game = gameNo
                                                   THEN lastTick.quiet + 1 ELSE 1,
                                  still |-> IF Abs(p.x - playerX) > 1 * Scale THEN 0
                                            ELSE IF lastTick.game = gameNo
                                                   THEN lastTick.still + 1 ELSE 1,
                                  nth |-> IF lastTick.game = gameNo
                                            THEN lastTick.nth + 1 ELSE 1,
                                  at |-> t,
                                  dir |-> inputDirection(keys, touch),
                                  calm |-> IF inputDirection(keys, touch) # 0 THEN 0
                                           ELSE IF lastTick.game = gameNo
                                                  THEN lastTick.calm + 1 ELSE 1,
                                  rnd |-> rnd, lvl |-> c.level]
                  /\ UNCHANGED <<state, startTime>>
  /\ UNCHANGED <<inputVars, scorePost, usedSessions, gameNo, serverVars>>

\* loopRef.current, lines 484-513: the pending callback cb runs `gap` ms after the
\* previous event.  rnd, rx and jit are this tick's Math.random() results.
Tick(cb, gap, rnd, rx, jit) ==
  /\ cb \in rafQueue
  /\ now' = now + gap
  /\ LET c == cb.closure
         rq == rafQueue \ {cb}
         t == now + gap
     IN IF c.gameState # "playing"
          THEN /\ rafQueue' = rq
               /\ lastTick' = [NoTick EXCEPT !.n = lastTick.n + 1, !.game = gameNo,
                    !.quiet = IF lastTick.game = gameNo THEN lastTick.quiet ELSE 0,
                    !.still = IF lastTick.game = gameNo THEN lastTick.still ELSE 0,
                    !.nth = IF lastTick.game = gameNo THEN lastTick.nth ELSE 0,
                    !.at = IF lastTick.game = gameNo THEN lastTick.at ELSE 0,
                    !.calm = IF lastTick.game = gameNo THEN lastTick.calm ELSE 0]
               /\ UNCHANGED <<reactVars, playerVars, objectVars, clockVars,
                              gameLoopRef, requests, inflight>>
          ELSE LET dt == IF prevTime # 0 THEN FrameDt(t - prevTime) ELSE DtOne
                   elapsedTime == (t - startTime) \div 1000
                   newLevel == getCurrentLevel(c.score)
                   p == updatePlayer(playerX, playerVelocity, keys, touch,
                                     playerIdleTime, lastPlayerPosition)
                   o1 == spawnFallingObject(fallingObjects, c.level, rnd, rx,
                                            spawned + 1, gameNo)
                   n1 == spawned + (Len(o1) - Len(fallingObjects))
                   tm == spawnTargetMeteor(o1, c.level, t, p.x, p.idleTime,
                                           lastTargetMeteorTime, jit, n1 + 1, gameNo)
                   u == updateFallingObjects(tm.objs, dt)
                   hit == checkCollisions(p.x, u.objs)
                   \* submitGameSession, lines 319-323, of the same render
                   submits == hit /\ ~c.isSubmittingGameSession
                   armed == requestAnimationFrame(rq, state)
               IN /\ prevTime' = t
                  /\ playerX' = p.x
                  /\ playerVelocity' = p.velocity
                  /\ playerIdleTime' = p.idleTime
                  /\ lastPlayerPosition' = p.lastPosition
                  /\ fallingObjects' = u.objs
                  /\ lastTargetMeteorTime' = tm.last
                  /\ spawned' = n1 + (IF tm.fired THEN 1 ELSE 0)
                  /\ forcedLog' = IF tm.fired THEN Append(forcedLog, <<gameNo, t>>)
                                              ELSE forcedLog
                  /\ queued' = [queued EXCEPT
                       !.gameTime = elapsedTime,
                       !.level = IF newLevel # c.level THEN newLevel ELSE @,
                       !.score = @ + u.exited,
                       !.gameState = IF hit THEN "gameOver" ELSE @,
                       !.isSubmittingGameSession = IF submits THEN TRUE ELSE @]
                  /\ requests' = IF submits
                       THEN Append(requests, [game |-> gameNo, score |-> c.score,
                                              level |-> c.level, duration |-> elapsedTime])
                       ELSE requests
                  /\ inflight' = IF submits THEN inflight \cup {Len(requests) + 1}
                                            ELSE inflight
                  /\ rafQueue' = armed.rafQueue
                  /\ gameLoopRef' = armed.id
                  /\ lastTick' = [n |-> lastTick.n + 1, game |-> gameNo, ran |-> TRUE,
                                  dt |-> dt,
                                  exited |-> u.exited, hit |-> hit, forced |-> tm.fired,
                                  score |-> c.score,
                                  setLevel |-> IF newLevel # c.level THEN newLevel ELSE -1,
                                  tested |-> collisionsTested(p.x, u.objs),
                                  quiet |-> IF p.idleTime = 0 THEN 0
                                            ELSE IF lastTick.game = gameNo
                                                   THEN lastTick.quiet + 1 ELSE 1,
                                  still |-> IF Abs(p.x - playerX) > 1 * Scale THEN 0
                                            ELSE IF lastTick.game = gameNo
                                                   THEN lastTick.still + 1 ELSE 1,
                                  nth |-> IF lastTick.game = gameNo
                                            THEN lastTick.nth + 1 ELSE 1,
                                  at |-> t,
                                  dir |-> inputDirection(keys, touch),
                                  calm |-> IF inputDirection(keys, touch) # 0 THEN 0
                                           ELSE IF lastTick.game = gameNo
                                                  THEN lastTick.calm + 1 ELSE 1,
                                  rnd |-> rnd, lvl |-> c.level]
                  /\ UNCHANGED <<state, startTime>>
  /\ UNCHANGED <<inputVars, scorePost, usedSessions, gameNo, serverVars>>

\* ------------------------------------------------------------ session and score requests

\* submitGameSession after its await, lines 339-353: the answer to request i
SessionResponse(i, ok) ==
  /\ i \in inflight
  /\ inflight' = inflight \ {i}
  /\ queued' = [queued EXCEPT !.gameSessionId = IF ok THEN i ELSE 0,
                              !.isSubmittingGameSession = FALSE]
  /\ UNCHANGED <<state, playerVars, inputVars, objectVars, clockVars, rafVars, now,
                 requests, scorePost, usedSessions, serverVars, gameNo, lastTick>>

\* line 894: the register button of the game over overlay
OpenModal ==
  /\ gameOverVisible(state)
  /\ Render([queued EXCEPT !.showModal = TRUE], rafQueue)
  /\ UNCHANGED <<playerVars, inputVars, objectVars, startTime, now, netVars, serverVars,
                 gameNo, lastTick>>

\* ScoreSubmissionModal.tsx lines 135-136: the form is rendered
formVisible(st) ==
  st.showModal /\ ~st.isSubmittingGameSession /\ st.gameSessionId # 0

\* ScoreSubmissionModal.tsx handleSubmit, lines 31-59, up to its await, from the
\* submit button (disabled while the form is submitting, line 165); one
\* POST /api/scores is followed at a time
HandleSubmit ==
  /\ formVisible(state)
  /\ ~state.isSubmitting
  /\ scorePost = 0
  /\ scorePost' = state.gameSessionId
  /\ Render([queued EXCEPT !.isSubmitting = TRUE], rafQueue)
  /\ UNCHANGED <<playerVars, inputVars, objectVars, startTime, now, requests,
                 inflight, usedSessions, serverVars, gameNo, lastTick>>

\* handleSubmitSuccess, DodgeGame.tsx lines 553-558
handleSubmitSuccessState(q) == [q EXCEPT !.gameState = "start"]

\* ScoreSubmissionModal.tsx handleClose, lines 80-86, with handleCloseModal,
\* DodgeGame.tsx lines 560-562
handleCloseState(q) == [q EXCEPT !.isSubmitting = FALSE, !.showModal = FALSE]

\* ScoreSubmissionModal.tsx handleSubmit after its await, lines 61-77.  The
\* route (app/api/scores/route.ts, getGameSession and POST) refuses a session
\* that is already used and marks the session used when it stores the score.
ScoreResponse(ok) ==
  /\ scorePost # 0
  /\ ok => scorePost \notin usedSessions
  /\ scorePost' = 0
  /\ usedSessions' = IF ok THEN usedSessions \cup {scorePost} ELSE usedSessions
  /\ queued' = IF ok THEN handleCloseState(handleSubmitSuccessState(queued))
                     ELSE [queued EXCEPT !.isSubmitting = FALSE]
  /\ UNCHANGED <<state, playerVars, inputVars, objectVars, clockVars, rafVars, now,
                 requests, inflight, serverVars, gameNo, lastTick>>

\* The cancel button of the form (disabled while the form is submitting, line
\* 158) or the close button of the waiting view (lines 115-131)
HandleClose ==
  /\ state.showModal
  /\ \/ formVisible(state) /\ ~state.isSubmitting
     \/ ~formVisible(state)
  /\ Render(handleCloseState(queued), rafQueue)
  /\ UNCHANGED <<playerVars, inputVars, objectVars, startTime, now, netVars, serverVars,
                 gameNo, lastTick>>

\* ------------------------------------------------------------ score route

\* lib/cache.ts.  An entry keeps, as history, the time it was stored at.
CacheKey == "leaderboard:top10"

\* getFromCache, lines 11-17, at Date.now() = t: null is [hit |-> FALSE]
getFromCache(cache, key, t) ==
  IF key \in DOMAIN cache /\ t < cache[key].expires
    THEN [hit |-> TRUE, data |-> cache[key].data]
    ELSE [hit |-> FALSE, data |-> <<>>]

\* setCache, lines 20-23, at Date.now() = t
setCache(cache, key, data, ttlMs, t) ==
  [k \in DOMAIN cache \cup {key} |->
     IF k = key THEN [data |-> data, expires |-> t + ttlMs, storedAt |-> t]
                ELSE cache[k]]

\* invalidateCache, lines 26-29
invalidateCache(cache, key) == [k \in DOMAIN cache \ {key} |-> cache[k]]

\* app/api/scores/route.ts, lines 15-16
windowMs == 60 * 1000
limit == 3

\* rateLimitMap.set(ip, data)
mapSet(m, ip, data) ==
  [k \in DOMAIN m \cup {ip} |-> IF k = ip THEN data ELSE m[k]]

\* Fault variant of checkRateLimit: one request more than the limit passes.
checkRateLimitOneMore(m, ip, t) ==
  IF ip \notin DOMAIN m \/ t > m[ip].resetTime
    THEN [map |-> mapSet(m, ip, [count |-> 1, resetTime |-> t + windowMs]),
          admitted |-> TRUE]
    ELSE IF m[ip].count > limit
           THEN [map |-> m, admitted |-> FALSE]
           ELSE [map |-> mapSet(m, ip, [m[ip] EXCEPT !.count = @ + 1]),
                 admitted |-> TRUE]

\* checkRateLimit, lines 13-31, at Date.now() = t
checkRateLimit(m, ip, t) ==
  IF ip \notin DOMAIN m \/ t > m[ip].resetTime
    THEN [map |-> mapSet(m, ip, [count |-> 1, resetTime |-> t + windowMs]),
          admitted |-> TRUE]
    ELSE IF m[ip].count >= limit
           THEN [map |-> m, admitted |-> FALSE]
           ELSE [map |-> mapSet(m, ip, [m[ip] EXCEPT !.count = @ + 1]),
                 admitted |-> TRUE]

\* POST, lines 148-270, with a database: a request from `ip`, `gap` ms after
\* the previous one, whose body passes validateInput or not and names session
\* sid.  The answer is 429 from the rate limit, 400 from validateInput or from
\* getGameSession (session already used), else 200 with the session marked used.
PostScores(ip, gap, valid, sid) ==
  LET t == dateNow + gap
      r == checkRateLimit(rateLimitMap, ip, t)
      status == IF ~r.admitted THEN 429
                ELSE IF ~valid \/ sid \in usedSessions THEN 400
                ELSE 200
  IN /\ dateNow' = t
     /\ rateLimitMap' = r.map
     /\ usedSessions' = IF status = 200 THEN usedSessions \cup {sid} ELSE usedSessions
     /\ scores' = IF status = 200
                    THEN Append(scores, [session |-> sid, post |-> Len(postLog) + 1])
                    ELSE scores
     /\ globalCache' = IF status = 200 THEN invalidateCache(globalCache, CacheKey)
                                         ELSE globalCache
     /\ postLog' = Append(postLog, [ip |-> ip, time |-> t, status |-> status,
                                     resetTime |-> r.map[ip].resetTime,
                                     session |-> sid, pc |-> "done"])
     /\ UNCHANGED getLog
     /\ UNCHANGED <<reactVars, playerVars, inputVars, objectVars, clockVars, rafVars,
                    now, requests, inflight, scorePost, gameNo, lastTick>>

\* ---- POST /api/scores, one await at a time

\* String.prototype.trim on a nickname given as its sequence of characters
RECURSIVE trimStart(_)
trimStart(cs) ==
  IF cs # <<>> /\ Head(cs) = " " THEN trimStart(Tail(cs)) ELSE cs

RECURSIVE trimEnd(_)
trimEnd(cs) ==
  IF cs # <<>> /\ cs[Len(cs)] = " " THEN trimEnd(SubSeq(cs, 1, Len(cs) - 1)) ELSE cs

trim(cs) == trimEnd(trimStart(cs))

\* validateInput, lines 40-71.  body.nickname is [isString, chars]; body.sessionId
\* is 0 when absent or not a string, -1 when not in UUID format, else the
\* number of the session it names.
validateInput(body) ==
  IF ~body.nickname.isString \/ body.nickname.chars = <<>> THEN [valid |-> FALSE]
  ELSE IF Len(trim(body.nickname.chars)) = 0 \/ Len(trim(body.nickname.chars)) > 12
    THEN [valid |-> FALSE]
  ELSE IF body.sessionId = 0 THEN [valid |-> FALSE]
  ELSE IF body.sessionId = -1 THEN [valid |-> FALSE]
  ELSE [valid |-> TRUE, nickname |-> trim(body.nickname.chars),
        sessionId |-> body.sessionId]

\* the rows of game_sessions (app/api/game/complete/route.ts inserts them)
GameSessions == {1, 2}

\* getGameSession, lines 74-143, with a database: the row exists and is not used
getGameSession(sid, used) == sid \in GameSessions /\ sid \notin used

serverUnchanged ==
  UNCHANGED <<reactVars, playerVars, inputVars, objectVars, clockVars, rafVars,
              now, requests, inflight, scorePost, gameNo, lastTick>>

\* POST lines 148-184: the rate limit, the body, validateInput
PostReceive(ip, gap, body) ==
  LET t == dateNow + gap
      r == checkRateLimit(rateLimitMap, ip, t)
      v == validateInput(body)
      entry == [ip |-> ip, time |-> t, resetTime |-> r.map[ip].resetTime,
                body |-> body, session |-> 0, nickname |-> <<>>,
                status |-> 0, pc |-> "done"]
  IN /\ dateNow' = t
     /\ rateLimitMap' = r.map
     /\ postLog' = Append(postLog,
          IF ~r.admitted THEN [entry EXCEPT !.status = 429]
          ELSE IF ~v.valid THEN [entry EXCEPT !.status = 400]
          ELSE [entry EXCEPT !.pc = "select", !.session = v.sessionId,
                             !.nickname = v.nickname])
     /\ UNCHANGED <<usedSessions, globalCache, scores, getLog>>
     /\ serverUnchanged

\* POST lines 186-194: the SELECT of getGameSession has run
PostSelect(j) ==
  /\ j \in 1..Len(postLog)
  /\ postLog[j].pc = "select"
  /\ postLog' = [postLog EXCEPT ![j] =
       IF getGameSession(postLog[j].session, usedSessions)
         THEN [@ EXCEPT !.pc = "insert"]
         ELSE [@ EXCEPT !.pc = "done", !.status = 400]]
  /\ UNCHANGED <<usedSessions, rateLimitMap, dateNow, globalCache, scores, getLog>>
  /\ serverUnchanged

\* POST lines 203-223: INSERT INTO scores, UPDATE game_sessions SET is_used
PostInsert(j) ==
  /\ j \in 1..Len(postLog)
  /\ postLog[j].pc = "insert"
  /\ scores' = Append(scores, [session |-> postLog[j].session, post |-> j])
  /\ usedSessions' = usedSessions \cup {postLog[j].session}
  /\ postLog' = [postLog EXCEPT ![j].pc = "invalidate"]
  /\ UNCHANGED <<rateLimitMap, dateNow, globalCache, getLog>>
  /\ serverUnchanged

\* POST lines 225-234: invalidateCache and the answer
PostFinish(j) ==
  /\ j \in 1..Len(postLog)
  /\ postLog[j].pc = "invalidate"
  /\ globalCache' = invalidateCache(globalCache, CacheKey)
  /\ postLog' = [postLog EXCEPT ![j].pc = "done", ![j].status = 200]
  /\ UNCHANGED <<usedSessions, rateLimitMap, dateNow, scores, getLog>>
  /\ serverUnchanged

\* ---- GET of the leaderboard (unnamed/part_000, lines 97-167), with a database

\* line 124: setCache(cacheKey, response, 60 * 1000)
LeaderboardTtlMs == 60 * 1000

\* lines 99-106: the cache is asked; as history, `seen` is the time the entry
\* found under the key was stored at, or -1, and `registered` the requests of
\* postLog answered 200 before this GET came
GetBegin(gap) ==
  LET t == dateNow + gap
      c == getFromCache(globalCache, CacheKey, t)
  IN /\ dateNow' = t
     /\ getLog' = Append(getLog,
          [time |-> t, fromCache |-> c.hit,
           seen |-> IF CacheKey \in DOMAIN globalCache
                      THEN globalCache[CacheKey].storedAt ELSE -1,
           registered |-> {k \in 1..Len(postLog) : postLog[k].status = 200},
           response |-> c.data, pc |-> IF c.hit THEN "done" ELSE "read"])
     /\ UNCHANGED <<usedSessions, rateLimitMap, postLog, globalCache, scores>>
     /\ serverUnchanged

\* lines 111-116: the SELECT on scores has run
GetRead(j) ==
  /\ j \in 1..Len(getLog)
  /\ getLog[j].pc = "read"
  /\ getLog' = [getLog EXCEPT ![j].response = scores, ![j].pc = "store"]
  /\ UNCHANGED <<usedSessions, rateLimitMap, dateNow, postLog, globalCache, scores>>
  /\ serverUnchanged

\* lines 118-127: the response is cached and returned
GetStore(j) ==
  /\ j \in 1..Len(getLog)
  /\ getLog[j].pc = "store"
  /\ globalCache' = setCache(globalCache, CacheKey, getLog[j].response,
                              LeaderboardTtlMs, dateNow)
  /\ getLog' = [getLog EXCEPT ![j].pc = "done"]
  /\ UNCHANGED <<usedSessions, rateLimitMap, dateNow, postLog, scores>>
  /\ serverUnchanged

\* ------------------------------------------------------------ input events

InputEvent(kb, tc) ==
  /\ inputs' = inputs + 1
  /\ keys' = kb
  /\ touch' = tc
  /\ UNCHANGED <<reactVars, playerVars, objectVars, clockVars, rafVars, now,
                 netVars, serverVars, gameNo, lastTick>>

\* handleKeyDown, lines 610-613, and handleKeyUp, lines 629-633
HandleKey(k, down) ==
  InputEvent([keys EXCEPT ![k] = down], touch)

\* handleTouchMove, lines 646-664: deltaX beyond the threshold, or not
HandleTouchMove(deltaX) ==
  InputEvent(keys, IF Abs(deltaX) > 20
                     THEN [isMovingLeft |-> deltaX < 0, isMovingRight |-> deltaX > 0]
                     ELSE [isMovingLeft |-> FALSE, isMovingRight |-> FALSE])

\* handleTouchEnd, lines 666-670
HandleTouchEnd ==
  InputEvent(keys, [isMovingLeft |-> FALSE, isMovingRight |-> FALSE])

\* lines 921-958: the two on-screen buttons, pressed or released
HandleButton(side, down) ==
  InputEvent(keys, [touch EXCEPT ![side] = down])

\* ------------------------------------------------------------ specification

\* The whole game: start, ticks, game over, session request, score modal,
\* restart, home.  A frame takes 17 ms, or 1700 ms after a stall; a stall does
\* not precede the render of updates React has queued, which runs as soon as
\* the main thread is free.
FrameGaps == IF queued # state THEN {17} ELSE {17, 1700}
\* spawn draws: below and above every spawn rate (1/10000)
Rnds == {0, 9999}
\* spawn position: right above the player's start position
SpawnXs == {186 * Scale}

TickStep ==
  /\ lastTick.n < MaxTicks
  /\ \E cb \in rafQueue, gap \in FrameGaps, rnd \in Rnds, rx \in SpawnXs :
       Tick(cb, gap, rnd, rx, 0)

HitboxKey ==
  /\ inputs < MaxInputs
  /\ ToggleHitboxes

Next ==
  \/ ClickStart(0)
  \/ EnterKey(0)
  \/ RestartGame(0)
  \/ HandleGoHome
  \/ HitboxKey
  \/ TickStep
  \/ Commit
  \/ \E i \in inflight, ok \in BOOLEAN : SessionResponse(i, ok)
  \/ OpenModal
  \/ HandleSubmit
  \/ \E ok \in BOOLEAN : ScoreResponse(ok)
  \/ HandleClose

Spec == Init /\ [][Next]_vars

\* ------------------------------------------------------------ specification: spawn burst

\* One game in which the regular spawner draws below the spawn rate on every
\* frame (obstacles at the left edge, away from the player) and the player never
\* moves; the game starts right after the page load or 3 s later.
MaxBurstTicks == 64
StartDelays == {0, 3000}

BurstStart == \E d \in StartDelays : ClickStart(d)

BurstTick ==
  /\ lastTick.n < MaxBurstTicks
  /\ \E cb \in rafQueue : Tick(cb, 17, 0, 0, 0)

NextBurst ==
  \/ BurstStart
  \/ BurstTick
  \/ Commit

SpecBurst == Init /\ [][NextBurst]_vars

\* ------------------------------------------------------------ specification: idle player

\* The player never moves and the regular spawner never draws below the spawn
\* rate, at 17 ms a frame; a targeted meteor is created right above the player
\* (jitter 0) or 19 px aside; the game may be restarted after a game over.
MaxIdleTicks == 250
Jitters == {0, 19 * Scale}

IdleStart == \E d \in StartDelays : ClickStart(d)

IdleTick ==
  /\ lastTick.n < MaxIdleTicks
  /\ \E cb \in rafQueue, jit \in Jitters : Tick(cb, 17, 9999, 0, jit)

NextIdle ==
  \/ IdleStart
  \/ IdleTick
  \/ Commit
  \/ RestartGame(0)

SpecIdle == Init /\ [][NextIdle]_vars

\* ------------------------------------------------------------ specification: level up

\* One game on a stalling machine: every frame takes 1700 ms until the score
\* reaches the level-up score, then 17 ms or 1700 ms; the regular spawner draws
\* below the spawn rate on every frame, at the left edge.
MaxLevelTicks == 26
LevelGaps == IF queued.score < LEVEL_UP_SCORE THEN {1700} ELSE {17, 1700}

LevelTick ==
  /\ lastTick.n < MaxLevelTicks
  /\ \E cb \in rafQueue, gap \in LevelGaps : Tick(cb, gap, 0, 0, 0)

NextLevel ==
  \/ ClickStart(0)
  \/ LevelTick
  \/ Commit

SpecLevel == Init /\ [][NextLevel]_vars

\* ------------------------------------------------------------ specification: placed obstacles

\* A game that has just started (first frame pending, so its dt is 1) with up
\* to two obstacles already placed relative to the player, the right arrow key
\* held or not; no spawner fires.  The game can be lost, left and restarted.
MaxSceneTicks == 2

\* an obstacle at (x, y) falling at `speed`
PlacedObstacle(x, y, speed, id) ==
  [Obstacle(x, speed, id, FALSE, 1) EXCEPT !.y = y]

\* (x - player x, y, speed) in 1/1000 pixels: at the lower edge; over the
\* hitbox; reaching the lower edge exactly; beside the hitbox at the limit
\* distance and just inside it; at the top of the field
Placements ==
  {<<0, (CANVAS_HEIGHT - 1) * Scale, 10 * Scale>>,
   <<0, 540 * Scale, 10 * Scale>>,
   <<0, 590 * Scale, 10 * Scale>>,
   <<5900, 540 * Scale, 10 * Scale>>,
   <<5800, 540 * Scale, 10 * Scale>>,
   <<-100 * Scale, 0, INITIAL_FALLING_SPEED>>}

ScenePlayerXs == {PlayerStartX, 100 * Scale}

Scenes(px) ==
  {<<>>}
  \cup {<<PlacedObstacle(px + a[1], a[2], a[3], 1)>> : a \in Placements}
  \cup {<<PlacedObstacle(px + a[1], a[2], a[3], 1),
          PlacedObstacle(px + b[1], b[2], b[3], 2)>> : a \in Placements, b \in Placements}

InitScene ==
  \E px \in ScenePlayerXs, right \in BOOLEAN :
    \E objs \in Scenes(px) :
      LET playing == startGameState(InitialState)
          armed == requestAnimationFrame({}, playing)
      IN /\ state = playing
         /\ queued = playing
         /\ playerX = px
         /\ playerVelocity = 0
         /\ keys = [ArrowLeft |-> FALSE, ArrowRight |-> right]
         /\ touch = [isMovingLeft |-> FALSE, isMovingRight |-> FALSE]
         /\ fallingObjects = objs
         /\ playerIdleTime = 0
         /\ lastPlayerPosition = px
         /\ lastTargetMeteorTime = 0
         /\ prevTime = 0
         /\ startTime = 0
         /\ gameLoopRef = armed.id
         /\ rafQueue = armed.rafQueue
         /\ now = 0
         /\ requests = <<>>
         /\ inflight = {}
         /\ scorePost = 0
         /\ usedSessions = {}
         /\ rateLimitMap = NoEntries
         /\ dateNow = 0
         /\ postLog = <<>>
         /\ globalCache = NoEntries
         /\ scores = <<>>
         /\ getLog = <<>>
         /\ gameNo = 1
         /\ forcedLog = <<>>
         /\ spawned = Len(objs)
         /\ inputs = 0
         /\ lastTick = NoTick

SceneGaps == {17, 1700}

SceneTick ==
  /\ lastTick.n < MaxSceneTicks
  /\ \E cb \in rafQueue, gap \in SceneGaps : Tick(cb, gap, 9999, 0, 0)

NextScene ==
  \/ SceneTick
  \/ Commit
  \/ RestartGame(0)
  \/ HandleGoHome
  \/ ClickStart(0)

SpecScene == InitScene /\ [][NextScene]_vars

\* ------------------------------------------------------------ specification: player motion

\* One game without obstacles, at 17 ms a frame, with key, touch and on-screen
\* button events at any moment.
MaxPlayerTicks == 40
MaxPlayerInputs == 1
Arrows == {"ArrowLeft", "ArrowRight"}
Sides == {"isMovingLeft", "isMovingRight"}
Swipes == {-30, 0, 30}

PlayerTick ==
  /\ lastTick.n < MaxPlayerTicks
  /\ \E cb \in rafQueue : Tick(cb, 17, 9999, 0, 0)

KeyEvent ==
  /\ inputs < MaxPlayerInputs
  /\ \E k \in Arrows, down \in BOOLEAN : HandleKey(k, down)

TouchEvent ==
  /\ inputs < MaxPlayerInputs
  /\ \/ \E deltaX \in Swipes : HandleTouchMove(deltaX)
     \/ HandleTouchEnd

ButtonEvent ==
  /\ inputs < MaxPlayerInputs
  /\ \E side \in Sides, down \in BOOLEAN : HandleButton(side, down)

NextPlayer ==
  \/ ClickStart(0)
  \/ PlayerTick
  \/ KeyEvent
  \/ TouchEvent
  \/ ButtonEvent

SpecPlayer == Init /\ [][NextPlayer]_vars

\* ------------------------------------------------------------ specification: score route

\* Requests to POST /api/scores from two addresses, 1 ms or 60 s apart, with a
\* body that passes validation or not, all naming the same session.
MaxPosts == 5
Addresses == {"10.0.0.1", "10.0.0.2"}
PostGaps == {1, 60 * 1000}

PostStep ==
  /\ Len(postLog) < MaxPosts
  /\ \E ip \in Addresses, gap \in PostGaps, valid \in BOOLEAN :
       PostScores(ip, gap, valid, 1)

NextRate == PostStep

SpecRate == Init /\ [][NextRate]_vars

\* ------------------------------------------------------------ specification: leaderboard

\* Requests to POST /api/scores and GETs of the leaderboard whose awaited
\* steps interleave.  The bodies name session 1 with a nickname of 1, 2 or 13
\* characters; a GET comes 1 ms, 60 s or 5 min after the previous request.
MaxRequests == 3

Nickname(n) == [isString |-> TRUE, chars |-> [i \in 1..n |-> "a"]]
Bodies == {[nickname |-> Nickname(n), sessionId |-> 1] : n \in {1, 2, 13}}
GetGaps == {1, 60 * 1000, 5 * 60 * 1000}

PostArrives ==
  /\ Len(postLog) + Len(getLog) < MaxRequests
  /\ \E body \in Bodies : PostReceive("10.0.0.1", 0, body)

GetArrives ==
  /\ Len(postLog) + Len(getLog) < MaxRequests
  /\ \E gap \in GetGaps : GetBegin(gap)

NextBoard ==
  \/ PostArrives
  \/ \E j \in 1..Len(postLog) : PostSelect(j)
  \/ \E j \in 1..Len(postLog) : PostInsert(j)
  \/ \E j \in 1..Len(postLog) : PostFinish(j)
  \/ GetArrives
  \/ \E j \in 1..Len(getLog) : GetRead(j)
  \/ \E j \in 1..Len(getLog) : GetStore(j)

SpecBoard == Init /\ [][NextBoard]_vars

\* ------------------------------------------------------------ specification: game over request

\* A game in which obstacles appear at the left wall or above the player, with
\* frames 17 ms or 1.7 s apart, up to the answer of /api/game/complete.
MaxSubmitTicks == 3
SubmitSpawnXs == {0, 186 * Scale}

SubmitTick ==
  /\ lastTick.n < MaxSubmitTicks
  /\ \E cb \in rafQueue, gap \in {17, 1700}, rx \in SubmitSpawnXs : Tick(cb, gap, 0, rx, 0)

NextSubmit ==
  \/ ClickStart(0)
  \/ SubmitTick
  \/ Commit
  \/ \E i \in inflight, ok \in BOOLEAN : SessionResponse(i, ok)

SpecSubmit == Init /\ [][NextSubmit]_vars

\* ------------------------------------------------------------ specification: tapping player

\* A player who taps the arrow keys on every frame (17 ms apart, no regular
\* obstacle): ArrowRight for one frame, nothing for two, then ArrowLeft held
\* and ArrowRight pressed or released between frames in a rhythm of 18 frames,
\* until the player lets go of the keys.  tapRhythm(n) is the direction of
\* frame n (no key is down before the first frame).
MaxDanceTicks == 68

tapRhythm(n) ==
  IF n = 1 THEN 1
  ELSE IF n \in {0, 2, 3} THEN 0
  ELSE IF n % 18 \in {7, 15} THEN -1
  ELSE IF n % 18 \in {8, 16} THEN 1
  ELSE IF n % 2 = 0 THEN -1 ELSE 1

DanceStart == \E d \in StartDelays : ClickStart(d)

\* the key event that the next frame of the rhythm needs
RhythmKey ==
  /\ state.gameState = "playing"
  /\ inputDirection(keys, touch) = tapRhythm(lastTick.n)
  /\ inputDirection(keys, touch) # tapRhythm(lastTick.n + 1)
  /\ \E k \in Arrows, down \in BOOLEAN :
       /\ inputDirection([keys EXCEPT ![k] = down], touch) = tapRhythm(lastTick.n + 1)
       /\ HandleKey(k, down)

\* the player, holding ArrowLeft only, releases it for good
LetGo ==
  /\ state.gameState = "playing"
  /\ lastTick.n >= 4
  /\ keys.ArrowLeft /\ ~keys.ArrowRight
  /\ HandleKey("ArrowLeft", FALSE)

DanceTick ==
  /\ lastTick.n < MaxDanceTicks
  /\ \/ inputDirection(keys, touch) = tapRhythm(lastTick.n + 1)
     \/ lastTick.n >= 4 /\ inputDirection(keys, touch) = 0
  /\ \E cb \in rafQueue, jit \in Jitters : Tick(cb, 17, 9999, 0, jit)

NextDance ==
  \/ DanceStart
  \/ RhythmKey
  \/ LetGo
  \/ DanceTick
  \/ Commit

SpecDance == Init /\ [][NextDance]_vars

\* ------------------------------------------------------------ specification: simultaneous inputs

\* Up to four key, button and touch events, in any order, around the first
\* frames of a game (17 ms apart, no regular obstacle).
MaxHeldTicks == 2
MaxHeldInputs == 4

HeldTick ==
  /\ lastTick.n < MaxHeldTicks
  /\ \E cb \in rafQueue : Tick(cb, 17, 9999, 0, 0)

HeldKey ==
  /\ inputs < MaxHeldInputs
  /\ \E k \in Arrows, down \in BOOLEAN : HandleKey(k, down)

HeldTouch ==
  /\ inputs < MaxHeldInputs
  /\ \/ \E deltaX \in Swipes : HandleTouchMove(deltaX)
     \/ HandleTouchEnd

HeldButton ==
  /\ inputs < MaxHeldInputs
  /\ \E side \in Sides, down \in BOOLEAN : HandleButton(side, down)

NextHeld ==
  \/ ClickStart(0)
  \/ HeldTick
  \/ HeldKey
  \/ HeldTouch
  \/ HeldButton

SpecHeld == Init /\ [][NextHeld]_vars

\* ------------------------------------------------------------ specification: press and release

\* One game without obstacles, at 17 ms a frame, with the two arrow keys
\* pressed (when up) and released (when down) at any moment.
MaxCoastTicks == 37
MaxCoastInputs == 2

CoastTick ==
  /\ lastTick.n < MaxCoastTicks
  /\ \E cb \in rafQueue : Tick(cb, 17, 9999, 0, 0)

CoastKey ==
  /\ inputs < MaxCoastInputs
  /\ \E k \in Arrows : HandleKey(k, ~keys[k])

NextCoast ==
  \/ ClickStart(0)
  \/ CoastTick
  \/ CoastKey

SpecCoast == Init /\ [][NextCoast]_vars

\* ------------------------------------------------------------ specification: spawn rate

\* A game one minute old at any level up to MaxSpawnLevel, with the score at
\* which the level begins and a row of 0, 21 or 22 obstacles at the left edge,
\* one reference frame apart; the regular spawner's draw is around the spawn
\* rates of levels 1, 2 and 8 (1/10000).
MaxSpawnLevel == 9
MaxSpawnTicks == 2
SpawnDraws == {0, 524, 525, 603, 604, 1049, 1050, 9999}

SpawnRow(lv, n) ==
  [i \in 1..n |-> PlacedObstacle(0, (i - 1) * getSpeedByLevel(lv), getSpeedByLevel(lv), i)]

InitSpawn ==
  \E lv \in 1..MaxSpawnLevel, n \in {0, MAX_FALLING_OBJECTS - 1, MAX_FALLING_OBJECTS} :
    LET playing == [startGameState(InitialState) EXCEPT
                      !.level = lv, !.score = (lv - 1) * LEVEL_UP_SCORE, !.gameTime = 60]
        armed == requestAnimationFrame({}, playing)
    IN /\ state = playing
       /\ queued = playing
       /\ playerX = PlayerStartX
       /\ playerVelocity = 0
       /\ keys = [ArrowLeft |-> FALSE, ArrowRight |-> FALSE]
       /\ touch = [isMovingLeft |-> FALSE, isMovingRight |-> FALSE]
       /\ fallingObjects = SpawnRow(lv, n)
       /\ playerIdleTime = 0
       /\ lastPlayerPosition = PlayerStartX
       /\ lastTargetMeteorTime = 0
       /\ prevTime = 60000
       /\ startTime = 0
       /\ gameLoopRef = armed.id
       /\ rafQueue = armed.rafQueue
       /\ now = 60000
       /\ requests = <<>>
       /\ inflight = {}
       /\ scorePost = 0
       /\ usedSessions = {}
       /\ rateLimitMap = NoEntries
       /\ dateNow = 0
       /\ postLog = <<>>
       /\ globalCache = NoEntries
       /\ scores = <<>>
       /\ getLog = <<>>
       /\ gameNo = 1
       /\ forcedLog = <<>>
       /\ spawned = n
       /\ inputs = 0
       /\ lastTick = NoTick

SpawnTick ==
  /\ lastTick.n < MaxSpawnTicks
  /\ \E cb \in rafQueue, rnd \in SpawnDraws : Tick(cb, 17, rnd, 0, 0)

NextSpawn == SpawnTick

SpecSpawn == InitSpawn /\ [][NextSpawn]_vars

\* ------------------------------------------------------------ claims

Handoffs(g) == Cardinality({i \in 1..Len(requests) : requests[i].game = g})

\* C1: once a collision has set gameOver the loop has stopped: as long as the
\* state stays gameOver no step moves an obstacle, changes the score or checks
\* collisions (a hit would hand off another session request).
C1_LoopStopsAtGameOver ==
  [][(queued.gameState = "gameOver" /\ queued'.gameState = "gameOver")
       => /\ fallingObjects' = fallingObjects
          /\ queued'.score = queued.score
          /\ requests' = requests]_vars

\* C2: at most one animation frame callback of the game loop is pending.
C2_OneCallbackPending == Cardinality(rafQueue) <= 1

C2_Witness ==
  /\ gameNo = 2
  /\ state.gameState = "playing"
  /\ Cardinality(rafQueue) = 1
  /\ fallingObjects # <<>>

\* C3: no game hands more than one message to the submission sink, and once a
\* tick has detected the collision that ends a game, that game has handed
\* exactly one.
C3_ExactlyOneHandoff ==
  /\ \A g \in 1..gameNo : Handoffs(g) <= 1
  /\ lastTick.hit => Handoffs(lastTick.game) = 1

\* C4: the game state changes only along start -> playing, playing -> gameOver,
\* gameOver -> playing and gameOver -> start.
AllowedTransitions ==
  {<<"start", "playing">>, <<"playing", "gameOver">>,
   <<"gameOver", "playing">>, <<"gameOver", "start">>}

C4_Transitions ==
  [][state'.gameState # state.gameState
       => <<state.gameState, state'.gameState>> \in AllowedTransitions]_vars

\* C5: the number of live obstacles never exceeds MAX_FALLING_OBJECTS.
C5_AtMostMax == Len(fallingObjects) <= MAX_FALLING_OBJECTS

\* C6: any two targeted meteors are created at least TARGET_METEOR_COOLDOWN ms
\* apart, also when a restart lies between them.
C6_CooldownAcrossRestart ==
  \A i, j \in 1..Len(forcedLog) :
    i < j => forcedLog[j][2] - forcedLog[i][2] >= TARGET_METEOR_COOLDOWN

\* C6, amended: two targeted meteors of the same game are created at least
\* TARGET_METEOR_COOLDOWN ms apart.
C6_CooldownWithinGame ==
  \A i, j \in 1..Len(forcedLog) :
    (i < j /\ forcedLog[i][1] = forcedLog[j][1])
      => forcedLog[j][2] - forcedLog[i][2] >= TARGET_METEOR_COOLDOWN

C6_Witness ==
  \E i, j \in 1..Len(forcedLog) :
    /\ i < j
    /\ forcedLog[i][1] = forcedLog[j][1]
    /\ forcedLog[j][2] - forcedLog[i][2] < TARGET_METEOR_COOLDOWN + 17

WindowMs == IDLE_THRESHOLD + TARGET_METEOR_COOLDOWN + 1

\* targeted meteors of the current game created in its first WindowMs ms
ForcedInWindow ==
  Cardinality({i \in 1..Len(forcedLog) :
                 /\ forcedLog[i][1] = gameNo
                 /\ forcedLog[i][2] - startTime <= WindowMs})

\* C7: a player stationary from the game start has got exactly 2 targeted
\* meteors once IDLE_THRESHOLD + TARGET_METEOR_COOLDOWN + 1 ms have passed.
C7_ExactlyTwoInWindow ==
  (gameNo >= 1 /\ now - startTime >= WindowMs) => ForcedInWindow = 2

\* C7, amended: at 17 ms a frame a player stationary from the game start has
\* got exactly 1 targeted meteor once IDLE_THRESHOLD + TARGET_METEOR_COOLDOWN
\* + 1 ms have passed: the idle time grows by 16 a frame and reaches the
\* threshold on the 63rd frame, and the next meteor is due a cooldown later.
C7_ExactlyOneInWindow ==
  (gameNo >= 1 /\ now - startTime >= WindowMs) => ForcedInWindow = 1

C7_Witness ==
  /\ state.gameState = "playing"
  /\ playerX = PlayerStartX
  /\ now - startTime >= WindowMs
  /\ ForcedInWindow = 1
  /\ playerIdleTime >= IDLE_THRESHOLD

\* C8: an obstacle keeps the speed, x, width and height it was created with.
C8_ObstacleFixed ==
  \A i \in 1..Len(fallingObjects) :
    LET o == fallingObjects[i]
    IN /\ o.speed = o.speed0
       /\ o.x = o.x0
       /\ o.width = ObjW
       /\ o.height = ObjH

\* an obstacle created at level 1 has been moved by a frame run at level 2
C8_Witness ==
  /\ state.level = 2
  /\ lastTick.ran
  /\ lastTick.dt = FrameDt(17)
  /\ \E i \in 1..Len(fallingObjects) :
       /\ fallingObjects[i].speed0 = getSpeedByLevel(1)
       /\ fallingObjects[i].y > 536 * Scale

\* C9: the player's x stays within [0, CANVAS_WIDTH - PLAYER_WIDTH].
C9_PlayerInField == 0 <= playerX /\ playerX <= PlayerMaxX

C9_Witness ==
  /\ playerX = PlayerMaxX
  /\ lastTick.ran
  /\ inputDirection(keys, touch) = 1

\* C10: in every frame, a tentative position x + velocity outside the field
\* puts x on the violated boundary with velocity 0; a tentative position inside
\* the field is taken with the velocity unchanged by the boundary check.
C10_ClampZeroesVelocity ==
  [][(lastTick'.n # lastTick.n /\ lastTick'.ran)
       => LET v == acceleratedVelocity(playerVelocity, inputDirection(keys, touch))
              tentative == playerX + v
          IN IF tentative < 0
               THEN playerX' = 0 /\ playerVelocity' = 0
               ELSE IF tentative > PlayerMaxX
                      THEN playerX' = PlayerMaxX /\ playerVelocity' = 0
                      ELSE playerX' = tentative /\ playerVelocity' = v]_vars

C10_Witness ==
  /\ playerX = 0
  /\ playerVelocity = 0
  /\ lastTick.ran
  /\ inputDirection(keys, touch) = -1

\* C11: within one session the level never decreases, and every value a frame
\* assigns to the level is floor(score / 20) + 1 of the score that frame reads.
C11_LevelFollowsScore ==
  [][/\ (gameNo' = gameNo /\ queued'.gameState # "start")
          => (queued'.level >= queued.level /\ state'.level >= state.level)
     /\ (lastTick'.n # lastTick.n /\ lastTick'.setLevel # -1)
          => /\ lastTick'.setLevel = lastTick'.score \div 20 + 1
             /\ queued'.level = lastTick'.setLevel]_vars

\* a frame has just assigned level 2
C11_Witness ==
  /\ lastTick.setLevel = 2
  /\ queued.level = 2
  /\ state.level = 1

\* C12: the level is 2 from the frame in which the 20th obstacle leaves the
\* field: after every frame the level is floor(score / 20) + 1 of the score
\* that frame has produced.
C12_LevelUpOnCrossingTick ==
  queued.gameState = "playing" => queued.level = queued.score \div 20 + 1

\* the first frame of a game (dt = 1) runs on a single obstacle of speed 10
\* placed at the player's x and at height y, no key held
FirstFrameOver(y) ==
  /\ lastTick.n = 0
  /\ lastTick'.n = 1
  /\ lastTick'.dt = DtOne
  /\ inputDirection(keys, touch) = 0
  /\ Len(fallingObjects) = 1
  /\ fallingObjects[1].x = playerX
  /\ fallingObjects[1].y = y
  /\ fallingObjects[1].speed = 10 * Scale

\* C13: an obstacle placed at x = player.x, y = CANVAS_HEIGHT - 1 with speed 10
\* makes the next frame (dt = 1) end the game.
C13_LowerEdgeObstacleEndsGame ==
  [][FirstFrameOver((CANVAS_HEIGHT - 1) * Scale) => queued'.gameState = "gameOver"]_vars

\* C13, amended: that obstacle is moved to y = 609 > CANVAS_HEIGHT, removed and
\* counted before the collision test, and the game goes on; placed at y = 540,
\* where the frame moves it onto the player's hitbox, it ends the game.
C13_HitboxObstacleEndsGame ==
  [][/\ FirstFrameOver((CANVAS_HEIGHT - 1) * Scale)
          => /\ queued'.gameState = "playing"
             /\ fallingObjects' = <<>>
             /\ queued'.score = queued.score + 1
     /\ FirstFrameOver(540 * Scale)
          => /\ queued'.gameState = "gameOver"
             /\ Len(fallingObjects') = 1
             /\ queued'.score = queued.score]_vars

\* the obstacle placed at y = 540 has ended the game on the first frame
C13_Witness ==
  /\ lastTick.n = 1
  /\ lastTick.hit
  /\ lastTick.dt = DtOne
  /\ queued.gameState = "gameOver"
  /\ Len(fallingObjects) = 1
  /\ fallingObjects[1].x = playerX
  /\ fallingObjects[1].y = 550 * Scale

\* C14: in a game without input in which no obstacle has been created, the
\* score is 0, the level 1 and the game state playing after every frame.
C14_QuietGameUnchanged ==
  (gameNo >= 1 /\ spawned = 0)
    => /\ queued.score = 0 /\ queued.level = 1 /\ queued.gameState = "playing"
       /\ state.score = 0 /\ state.level = 1 /\ state.gameState = "playing"

\* three frames have run and no obstacle exists
C14_Witness ==
  /\ lastTick.n = 3
  /\ lastTick.ran
  /\ spawned = 0
  /\ fallingObjects = <<>>
  /\ inputDirection(keys, touch) = 0
  /\ queued.gameState = "playing"

\* C15: a frame moves every live obstacle once by speed * dt, removes exactly
\* those whose new y is above CANVAS_HEIGHT, keeps the others in their order,
\* and adds the number of removed obstacles to the score.
C15_MoveFilterCount ==
  [][(lastTick'.n # lastTick.n /\ lastTick'.ran /\ spawned' = spawned)
       => LET newY(o) == o.y + (o.speed * lastTick'.dt) \div 1000
              stays == {i \in 1..Len(fallingObjects) :
                         newY(fallingObjects[i]) <= CANVAS_HEIGHT * Scale}
              rank(i) == Cardinality({k \in stays : k <= i})
          IN /\ Len(fallingObjects') = Cardinality(stays)
             /\ \A i \in stays :
                  fallingObjects'[rank(i)] =
                    [fallingObjects[i] EXCEPT !.y = newY(fallingObjects[i])]
             /\ queued'.score
                  = queued.score + Len(fallingObjects) - Cardinality(stays)]_vars

\* of two obstacles the first has left the field and been counted, the second
\* has reached y = CANVAS_HEIGHT exactly and stays
C15_Witness ==
  /\ lastTick.ran
  /\ lastTick.exited = 1
  /\ queued.score = 1
  /\ Len(fallingObjects) = 1
  /\ fallingObjects[1].id = 2
  /\ fallingObjects[1].y = CANVAS_HEIGHT * Scale

\* C16: if, after the obstacles have moved, at least one overlaps the player's
\* hitbox, the frame sets the game state to gameOver and tests no obstacle
\* after the first overlapping one; if none overlaps, every obstacle has been
\* tested and the game state is the one before the frame.
C16_FirstHitEndsScan ==
  [][(lastTick'.n # lastTick.n /\ lastTick'.ran)
       => LET hits == {i \in 1..Len(fallingObjects') :
                         checkCollision(playerX', fallingObjects'[i])}
          IN IF hits # {}
               THEN /\ queued'.gameState = "gameOver"
                    /\ lastTick'.tested \in hits
                    /\ \A i \in hits : lastTick'.tested <= i
               ELSE /\ queued'.gameState = queued.gameState
                    /\ requests' = requests
                    /\ lastTick'.tested = Len(fallingObjects')]_vars

\* two obstacles overlap the player; the scan has ended at the first
C16_Witness ==
  /\ lastTick.ran
  /\ lastTick.hit
  /\ lastTick.tested = 1
  /\ queued.gameState = "gameOver"
  /\ Len(fallingObjects) = 2
  /\ checkCollision(playerX, fallingObjects[2])

\* the length of the offset between the player's ellipse centre and the circle
\* centre of obstacle o, normalised by (rx, ry) = (3.85, 7.2), in 1/100
normalisedLength(px, o) ==
  LET dx == Abs((o.x + 14 * Scale) - (px + 11 * Scale))
      dy == Abs((o.y + 14 * Scale) - 564 * Scale)
      nx == (dx * 100) \div 3850
      ny == (dy * 100) \div 7200
  IN Sqrt(nx * nx + ny * ny)

\* 1 + sqrt((r / rx)^2 + (r / ry)^2) / sqrt(2) for r = 6.3, in 1/100
collisionLimit ==
  LET tx == (6300 * 1000) \div 3850
      ty == (6300 * 1000) \div 7200
  IN (1000 + (Sqrt(tx * tx + ty * ty) * 1000) \div 1414) \div 10

C18_StartResets ==
  [][gameNo' # gameNo
       => /\ state'.gameState = "playing" /\ queued'.gameState = "playing"
          /\ state'.score = 0 /\ queued'.score = 0
          /\ state'.level = 1 /\ queued'.level = 1
          /\ state'.gameTime = 0 /\ queued'.gameTime = 0
          /\ fallingObjects' = <<>>
          /\ 2 * playerX' + PLAYER_WIDTH * Scale = CANVAS_WIDTH * Scale
          /\ playerVelocity' = 0
          /\ playerIdleTime' = 0
          /\ lastPlayerPosition' = playerX'
          /\ lastTargetMeteorTime' = 0
          /\ startTime' = now']_vars

\* a second game has started; the last frame of the first one, with the right
\* arrow key held, had counted an exit and hit an obstacle
C18_Witness ==
  /\ gameNo = 2
  /\ lastTick.game = 1
  /\ lastTick.hit
  /\ lastTick.exited = 1
  /\ keys.ArrowRight
  /\ state.gameState = "playing"
  /\ state.score = 0
  /\ fallingObjects = <<>>
  /\ playerX = PlayerStartX
  /\ playerVelocity = 0

\* C19: from the frame that sets the game state to gameOver until a restart or
\* home action, the score, the level, the elapsed time, the obstacles and the
\* player's x do not change.
C19_FrozenAtGameOver ==
  [][(queued.gameState = "gameOver" /\ queued'.gameState = "gameOver")
       => /\ queued'.score = queued.score
          /\ queued'.level = queued.level
          /\ queued'.gameTime = queued.gameTime
          /\ fallingObjects' = fallingObjects
          /\ playerX' = playerX]_vars

\* the requests of the address of request j admitted before j in the minute
\* that ends with j
AdmittedInMinuteBefore(j) ==
  {i \in 1..(j - 1) : /\ postLog[i].ip = postLog[j].ip
                       /\ postLog[i].status # 429
                       /\ postLog[j].time - postLog[i].time < 60 * 1000}

\* the requests of the address of request j admitted before j in j's window
AdmittedInWindowBefore(j) ==
  {i \in 1..(j - 1) : /\ postLog[i].ip = postLog[j].ip
                       /\ postLog[i].status # 429
                       /\ postLog[i].resetTime = postLog[j].resetTime}

\* C20: an address may post 5 times a minute: a request is answered 429 only
\* when 5 requests of its address were admitted in the minute before it, and
\* never more than 5 are admitted in a minute.
C20_FivePerMinute ==
  \A j \in 1..Len(postLog) :
    /\ postLog[j].status = 429 => Cardinality(AdmittedInMinuteBefore(j)) >= 5
    /\ postLog[j].status # 429 => Cardinality(AdmittedInMinuteBefore(j)) < 5

\* C21: a leaderboard response found in the cache is served when the GET comes
\* less than 5 minutes after it was stored, and is not served later.
C21_CachedFiveMinutes ==
  \A j \in 1..Len(getLog) :
    /\ (getLog[j].seen # -1 /\ getLog[j].time - getLog[j].seen < 5 * 60 * 1000)
         => getLog[j].fromCache
    /\ getLog[j].fromCache
         => (getLog[j].seen # -1 /\ getLog[j].time - getLog[j].seen < 5 * 60 * 1000)

\* C22: a nickname is accepted only if it has 2 to 12 characters: no score row
\* comes from a request that carries any other nickname, and once such a
\* request is answered, and was not turned away by the rate limit, the answer
\* is 400.
C22_NicknameTwoToTwelve ==
  \A j \in 1..Len(postLog) :
    Len(postLog[j].body.nickname.chars) \notin 2..12 =>
      /\ \A k \in 1..Len(scores) : scores[k].post # j
      /\ (postLog[j].pc = "done" /\ postLog[j].status # 429) => postLog[j].status = 400

\* C23: a session is registered at most once: no two score rows carry the same
\* session, and no two requests for the same session are answered 200.
C23_SessionRegisteredOnce ==
  /\ \A k, l \in 1..Len(scores) : scores[k].session = scores[l].session => k = l
  /\ \A j, k \in 1..Len(postLog) :
       (postLog[j].status = 200 /\ postLog[k].status = 200
          /\ postLog[j].session = postLog[k].session) => j = k

\* C26: a GET that comes after a POST stored its score and invalidated the key
\* is never served a cached response without that score.
C26_NoStaleLeaderboard ==
  \A j \in 1..Len(getLog) :
    getLog[j].fromCache =>
      \A k \in getLog[j].registered :
        \E r \in 1..Len(getLog[j].response) : getLog[j].response[r].post = k

\* C24: the session id the modal holds, and the one it sends to /api/scores,
\* belongs to the latest game: it is never the id of a request that an earlier
\* game made.
C24_SessionOfLatestGame ==
  /\ state.gameSessionId # 0 => requests[state.gameSessionId].game = gameNo
  /\ scorePost # 0 => requests[scorePost].game = gameNo

\* C25: the request made at game over carries the final score and level: right
\* after the tick that found the collision, the score and level of the request
\* it sent are the score and level the game over screen will show.
C25_SubmittedFinalScore ==
  (lastTick.hit /\ lastTick.game = gameNo /\ requests # <<>>
     /\ requests[Len(requests)].game = gameNo) =>
    /\ requests[Len(requests)].score = queued.score
    /\ requests[Len(requests)].level = queued.level

\* C27: every obstacle a tick creates, by the regular spawner or by the idle
\* countermeasure, has the speed of the level of the score that tick runs with.
C27_SpeedOfCurrentLevel ==
  [][(lastTick'.n = lastTick.n + 1 /\ lastTick'.ran) =>
       \A i \in 1..Len(fallingObjects') :
         (\A k \in 1..Len(fallingObjects) : fallingObjects[k].id # fallingObjects'[i].id) =>
           fallingObjects'[i].speed = getSpeedByLevel(getCurrentLevel(lastTick'.score))]_vars

\* The targeted obstacles that a step adds to the field
NewForced ==
  {i \in 1..Len(fallingObjects') :
     /\ fallingObjects'[i].forced
     /\ \A k \in 1..Len(fallingObjects) : fallingObjects[k].id # fallingObjects'[i].id}

\* The guards and the effect of the idle countermeasure in a step that adds a
\* targeted obstacle: idle time and cooldown reached, one obstacle, created at
\* y = 0 (and moved once by this tick), inside the field and at most 20 px from
\* the position centred on the player, and the time of the last one set to now.
ForcedAsGuarded ==
  /\ playerIdleTime' >= IDLE_THRESHOLD
  /\ now' - lastTargetMeteorTime >= TARGET_METEOR_COOLDOWN
  /\ Cardinality(NewForced) = 1
  /\ lastTargetMeteorTime' = now'
  /\ \A i \in NewForced :
       LET o == fallingObjects'[i]
       IN /\ o.y = (o.speed * lastTick'.dt) \div 1000
          /\ o.x >= 0 /\ o.x <= FieldWidth - ObjW
          /\ Abs(o.x - (playerX' + PlayerW \div 2 - ObjW \div 2)) <= 20 * Scale

\* C28: a targeted obstacle is created only under both guards and as described,
\* and never for a player whose x changed by more than 1 px within a tick at
\* least once in every 62 consecutive ticks.
C28_MovingPlayerNeverTargeted ==
  [][(NewForced # {} \/ (lastTick'.n # lastTick.n /\ lastTick'.forced)) =>
       (ForcedAsGuarded /\ lastTick'.still >= 62)]_vars

\* C28, amended: a targeted obstacle is created only under both guards and as
\* described, and never when in the last 62 ticks there was one at whose start x
\* was more than 1 px away from the position the idle tracker recorded.
C28_TrackedPlayerNeverTargeted ==
  [][(NewForced # {} \/ (lastTick'.n # lastTick.n /\ lastTick'.forced)) =>
       (ForcedAsGuarded /\ lastTick'.quiet >= 62)]_vars

C28_Witness ==
  /\ lastTick.forced
  /\ lastTick.quiet >= 62
  /\ lastTick.still < 62
  /\ playerIdleTime >= IDLE_THRESHOLD
  /\ lastTargetMeteorTime = now
  /\ \E i \in 1..Len(fallingObjects) :
       /\ fallingObjects[i].forced
       /\ fallingObjects[i].x = playerX + PlayerW \div 2 - ObjW \div 2 + 19 * Scale

\* C29: every tick that runs the game updates the idle tracker from the
\* player's position after the tick's movement: more than 1 px away from the
\* recorded position, the idle time becomes 0 and that position is recorded;
\* otherwise the idle time grows by 16, whatever dt, and the record stays.
C29_TrackedAfterMovement ==
  [][(lastTick'.n # lastTick.n /\ lastTick'.ran) =>
       IF Abs(playerX' - lastPlayerPosition) > 1 * Scale
         THEN playerIdleTime' = 0 /\ lastPlayerPosition' = playerX'
         ELSE playerIdleTime' = playerIdleTime + 16
                /\ lastPlayerPosition' = lastPlayerPosition]_vars

\* C30: the dt of a tick is at most 5 reference frames, and within one tick no
\* obstacle advances by more than 5 times its speed.
C30_DtCapped ==
  [][(lastTick'.n # lastTick.n /\ lastTick'.ran) =>
       /\ lastTick'.dt <= 5 * Scale
       /\ \A i \in 1..Len(fallingObjects), k \in 1..Len(fallingObjects') :
            fallingObjects[i].id = fallingObjects'[k].id =>
              fallingObjects'[k].y - fallingObjects[i].y <= 5 * fallingObjects[i].speed]_vars

\* C31: the first tick of every game that runs the game has dt = 1, whatever
\* the timestamp of the last tick of the game before; every later one has
\* dt = (now - timestamp of the tick before) / 16.6667; and each stores now as
\* the previous timestamp.
C31_FirstTickDtOne ==
  [][(lastTick'.n # lastTick.n /\ lastTick'.ran) =>
       /\ prevTime' = now'
       /\ lastTick'.dt = IF lastTick'.nth = 1 THEN DtOne
                         ELSE FrameDt(now' - lastTick.at)]_vars

C31_Witness ==
  /\ gameNo = 2
  /\ lastTick.ran /\ lastTick.game = 2 /\ lastTick.nth = 1
  /\ lastTick.dt = DtOne
  /\ lastTick.n = 3

\* C32: a tick runs player motion, regular spawner, idle countermeasure, motion
\* integrator and collision detector once each, in this order: the idle
\* countermeasure sees the idle time this tick's player motion left; every
\* obstacle the tick creates, the regular one before the targeted one, is moved
\* once in the same tick; every older obstacle is moved once, or removed if
\* that leaves the field; the collision result is the one of the player's and
\* the obstacles' positions after the tick, and no removed obstacle is tested.
C32_StepsInOrder ==
  [][(lastTick'.n # lastTick.n /\ lastTick'.ran) =>
       LET old == {fallingObjects[i].id : i \in 1..Len(fallingObjects)}
           dt == lastTick'.dt
       IN /\ (NewForced # {}) <=>
               (playerIdleTime' >= IDLE_THRESHOLD
                  /\ now' - lastTargetMeteorTime >= TARGET_METEOR_COOLDOWN)
          /\ \A k \in 1..Len(fallingObjects') :
               LET o == fallingObjects'[k]
               IN IF o.id \in old
                    THEN \E i \in 1..Len(fallingObjects) :
                           /\ fallingObjects[i].id = o.id
                           /\ o.y = fallingObjects[i].y + (o.speed * dt) \div 1000
                    ELSE /\ o.y = (o.speed * dt) \div 1000
                         /\ \A l \in 1..Len(fallingObjects') :
                              (fallingObjects'[l].id \notin old /\ ~fallingObjects'[l].forced
                                 /\ o.forced) => l < k
          /\ \A i \in 1..Len(fallingObjects) :
               (\A k \in 1..Len(fallingObjects') : fallingObjects'[k].id # fallingObjects[i].id)
                 <=> fallingObjects[i].y + (fallingObjects[i].speed * dt) \div 1000 > FieldHeight
          /\ lastTick'.hit <=>
               \E k \in 1..Len(fallingObjects') : checkCollision(playerX', fallingObjects'[k])
          /\ lastTick'.tested <= Len(fallingObjects')]_vars

C32_Witness ==
  /\ lastTick.ran /\ lastTick.hit /\ lastTick.exited = 2
  /\ lastTick.dt = FrameDt(1700)
  /\ Len(fallingObjects) = 1
  /\ fallingObjects[1].id = spawned
  /\ fallingObjects[1].y = (fallingObjects[1].speed * lastTick.dt) \div 1000
  /\ checkCollision(playerX, fallingObjects[1])

\* C33: the direction updatePlayer computes is -1, 0 or 1 and depends only on
\* the inputs active at the tick, by the priority touch right, touch left,
\* keyboard right, keyboard left; it is 0 exactly when no input is active.
C33_DirectionByPriority ==
  [][(lastTick'.n # lastTick.n /\ lastTick'.ran) =>
       /\ lastTick'.dir \in {-1, 0, 1}
       /\ lastTick'.dir =
            CASE touch.isMovingRight -> 1
              [] ~touch.isMovingRight /\ touch.isMovingLeft -> -1
              [] ~touch.isMovingRight /\ ~touch.isMovingLeft /\ keys.ArrowRight -> 1
              [] ~touch.isMovingRight /\ ~touch.isMovingLeft /\ ~keys.ArrowRight
                   /\ keys.ArrowLeft -> -1
              [] OTHER -> 0
       /\ lastTick'.dir = 0 <=>
            (~touch.isMovingRight /\ ~touch.isMovingLeft
               /\ ~keys.ArrowRight /\ ~keys.ArrowLeft)]_vars

C33_Witness ==
  /\ lastTick.n = 2 /\ lastTick.nth = 2 /\ inputs = 2
  /\ keys.ArrowRight /\ ~keys.ArrowLeft
  /\ touch.isMovingLeft /\ ~touch.isMovingRight
  /\ lastTick.dir = -1
  /\ playerVelocity = 0

\* C34: the player's velocity is always within [-MAX_SPEED, MAX_SPEED],
\* whatever keys are pressed or released and whenever, a change of direction
\* at full speed included.
C34_VelocityWithinMaxSpeed ==
  -(PLAYER_SPEED * Scale) <= playerVelocity /\ playerVelocity <= PLAYER_SPEED * Scale

\* ArrowLeft held for eight frames (full speed to the left), then ArrowRight
\* as well: the ninth frame accelerates to the right from exactly -MAX_SPEED.
C34_Witness ==
  /\ lastTick.ran /\ lastTick.nth = 9
  /\ keys.ArrowLeft /\ keys.ArrowRight
  /\ lastTick.dir = 1
  /\ playerVelocity = ACCELERATION - PLAYER_SPEED * Scale

\* The number of frames of friction that bring velocity v to rest.
RECURSIVE frictionTicks(_)
frictionTicks(v) ==
  IF v = 0 THEN 0 ELSE 1 + frictionTicks(acceleratedVelocity(v, 0))

RestTicks == frictionTicks(MAX_SPEED)

\* C35: in a frame without directional input the speed falls to at most 0.85
\* of what it was and is either 0 or at least 0.1; after RestTicks such frames
\* in a row (the number friction needs from full speed) the velocity is 0,
\* and it stays 0 with x unchanged while no input comes; from the next frame
\* on every frame adds the idle step to the idle time.
C35_FrictionToRest ==
  [][(lastTick'.n # lastTick.n /\ lastTick'.ran /\ lastTick'.dir = 0) =>
       /\ Abs(playerVelocity') * 100 <= Abs(playerVelocity) * 85
       /\ playerVelocity' = 0 \/ Abs(playerVelocity') * 10 >= Scale
       /\ lastTick'.calm >= RestTicks => playerVelocity' = 0
       /\ playerVelocity = 0 => playerVelocity' = 0 /\ playerX' = playerX
       /\ lastTick'.calm > RestTicks =>
            playerIdleTime' = playerIdleTime + IDLE_STEP]_vars

\* ArrowRight held for the first eight frames (full speed), then released: the
\* player has coasted more than 60 px from the start, is at rest after
\* RestTicks further frames and is accruing idle time in the frame after.
C35_Witness ==
  /\ lastTick.ran /\ lastTick.nth = 8 + RestTicks + 1
  /\ lastTick.calm = RestTicks + 1
  /\ ~keys.ArrowLeft /\ ~keys.ArrowRight
  /\ playerVelocity = 0
  /\ playerX > PlayerStartX + 60 * Scale
  /\ playerIdleTime > 0

\* The number of obstacles the regular spawner creates in the step: all that
\* are created, less the targeted one.
NewRegular == spawned' - spawned - (IF lastTick'.forced THEN 1 ELSE 0)

\* C36: in every frame the regular spawner creates an obstacle exactly when
\* fewer than MAX_FALLING_OBJECTS obstacles are live and its draw is below
\* both SPAWN_RATE * (1 + 0.15 * (level - 1)) of the level it reads and
\* 2 * SPAWN_RATE, and it creates at most one; the rate is SPAWN_RATE at
\* level 1, does not decrease with the level and never exceeds 2 * SPAWN_RATE.
C36_SpawnRateCapped ==
  [][(lastTick'.n # lastTick.n /\ lastTick'.ran) =>
       LET draw == lastTick'.rnd
           lv == lastTick'.lvl
       IN /\ (NewRegular > 0) <=>
               /\ Len(fallingObjects) < MAX_FALLING_OBJECTS
               /\ draw * 100 < SPAWN_RATE * 100 + SPAWN_RATE * 15 * (lv - 1)
               /\ draw < 2 * SPAWN_RATE
          /\ NewRegular \in {0, 1}
          /\ currentSpawnRate(1) = SPAWN_RATE * 100
          /\ \A l \in 1..lv : /\ currentSpawnRate(l) <= currentSpawnRate(l + 1)
                              /\ currentSpawnRate(l) <= 2 * SPAWN_RATE * 100]_vars

\* At level 8 the uncapped rate would be 0.1076: a draw of 0.1050 creates
\* nothing, although only 21 obstacles are live.
C36_Witness ==
  /\ lastTick.ran /\ lastTick.nth = 1
  /\ lastTick.lvl = 8 /\ lastTick.rnd = 2 * SPAWN_RATE
  /\ Len(fallingObjects) = MAX_FALLING_OBJECTS - 1
  /\ spawned = MAX_FALLING_OBJECTS - 1

\* the admitted requests of the address of request i that come from request i
\* on, up to 60 s after it
AdmittedWithinWindowOf(i) ==
  {j \in i..Len(postLog) : /\ postLog[j].ip = postLog[i].ip
                          /\ postLog[j].status # 429
                          /\ postLog[j].time <= postLog[i].time + 60 * 1000}

\* C37: of the requests of one address, from the admission that opens a window
\* up to the window's reset time 60 s later, at most `limit` are admitted; a
\* rejected request leaves the address's count and reset time as they were;
\* and a request that comes after the reset time is admitted and leaves a
\* count of 1 and a reset time 60 s after it.
C37_WindowAdmitsLimit ==
  [][Len(postLog') = Len(postLog) + 1 =>
       LET e == postLog'[Len(postLog')]
       IN /\ \A i \in 1..Len(postLog') :
               (postLog'[i].status # 429 /\ postLog'[i].resetTime = postLog'[i].time + 60 * 1000)
                 => Cardinality({j \in i..Len(postLog') :
                                   /\ postLog'[j].ip = postLog'[i].ip
                                   /\ postLog'[j].status # 429
                                   /\ postLog'[j].time <= postLog'[i].time + 60 * 1000}) <= limit
          /\ e.status = 429 => rateLimitMap' = rateLimitMap
          /\ (e.ip \in DOMAIN rateLimitMap /\ e.time > rateLimitMap[e.ip].resetTime) =>
               /\ e.status # 429
               /\ rateLimitMap'[e.ip] = [count |-> 1, resetTime |-> e.time + 60 * 1000]]_vars

\* One address: three requests admitted, a fourth rejected in the same
\* window, and a fifth after the reset time, admitted with count 1.
C37_Witness ==
  /\ Len(postLog) = 5
  /\ \A j \in 1..5 : postLog[j].ip = postLog[1].ip
  /\ Cardinality(AdmittedWithinWindowOf(1)) = limit
  /\ postLog[4].status = 429
  /\ postLog[5].status # 429
  /\ postLog[5].time > postLog[1].resetTime
  /\ rateLimitMap[postLog[1].ip].count = 1

====
